---- MODULE Spec2Model ----
(***************************************************************************)
(* Inbound-message moderation pipeline of the WhatsApp moderation server   *)
(* (server/routes/webhook.js and the services and models it uses), the     *)
(* webhook endpoint in front of it, and the owner's operations on the      *)
(* tracked words (socket/handlers.js, routes/user.js).                     *)
(*                                                                         *)
(* Scores are percentages (0.7 is 70).  A string is a sequence of one-     *)
(* character strings.  A JavaScript value that is undefined or the empty   *)
(* string is NoText where the only reader tests truthiness.  A Date is the  *)
(* reading of a clock that advances with every reading.                    *)
(***************************************************************************)
EXTENDS Integers, Sequences, FiniteSets, TLC

VARIABLES
  users,        \* User collection: user id -> document
  messages,     \* Message collection: set of documents
  newWords,     \* NewWord collection: set of documents
  outbox,       \* texts handed to the WhatsApp send API and accepted
  deliveries,   \* provider: the number of deliveries still to come
  pc,           \* per invocation of processIncomingMessage: its position
  messageData,  \* per invocation: the argument
  user,         \* per invocation: the user document found (its id)
  message,      \* per invocation: the in-memory Message document
  obs,          \* per invocation: the adapter calls made and their outcomes
  learner,      \* per invocation: the locals of checkForNewWords
  request,      \* per invocation: the webhook request being served, if any
  op,           \* per owner operation in progress (socket event, API call): its locals
  emitted,      \* the events emitted to the owners' socket rooms
  verification, \* the last verification request served and its response
  now,          \* the clock: the next value of Date.now()
  authAttempts, \* app.locals.authAttempts: client IP -> times of its attempts
  authRequests  \* the requests sent through authRateLimit and their outcomes

vars == <<users, messages, newWords, outbox, deliveries, pc, messageData, user,
          message, obs, learner, request, op, emitted, verification, now,
          authAttempts, authRequests>>

-----------------------------------------------------------------------------
(* Bounds and input domains                                                *)

MaxTextLen == 3

Alphabet == {"a", "B"}

Undefined == "undefined"
NoText == <<>>

Texts == UNION {[1..k -> Alphabet] : k \in 1..MaxTextLen}

BlockedPool == {<<"b">>}
AllowedPool == {<<"A">>}

Scores == {10, 60, 80}
Levels == {"VERY_LIKELY", "LIKELY", "POSSIBLE"}

MessageTypes == {"text", "image", "video", "audio", "document"}

UserIds == {"u1"}
NumberOf(u) == IF u = "u1" THEN "n1" ELSE "n2"
UnknownNumber == "n0"
Sender == "s1"

-----------------------------------------------------------------------------
(* Strings                                                                 *)

toLowerCaseChar(c) ==
  CASE c = "A" -> "a"
    [] c = "B" -> "b"
    [] c = "C" -> "c"
    [] c = "X" -> "x"
    [] c = "Y" -> "y"
    [] c = "Z" -> "z"
    [] OTHER -> c

toLowerCase(s) == [i \in 1..Len(s) |-> toLowerCaseChar(s[i])]

\* String.prototype.includes: w occurs in s as a contiguous substring
includes(s, w) ==
  \E i \in 0..(Len(s) - Len(w)) : SubSeq(s, i + 1, i + Len(w)) = w

\* word => text.toLowerCase().includes(word.toLowerCase())
matchesWord(text, word) == includes(toLowerCase(text), toLowerCase(word))

SetMax(S) == CHOOSE x \in S : \A y \in S : y <= x
SetMin(S) == CHOOSE x \in S : \A y \in S : x <= y

-----------------------------------------------------------------------------
(* Text classifier adapter (services/hateSpeechDetection.js)               *)

DetectThreshold == 50

\* the label -> category table
categories(label) ==
  CASE label = "toxic" -> "hate_speech"
    [] label = "severe_toxic" -> "hate_speech"
    [] label = "obscene" -> "explicit_content"
    [] label = "threat" -> "violence"
    [] label = "insult" -> "hate_speech"
    [] label = "identity_hate" -> "hate_speech"
    [] OTHER -> "other"

\* The provider's answer: ok = FALSE is any failure of the call (timeout,
\* HTTP error, malformed body); otherwise results is response.data[0].
HateResponse(ok, results) == [ok |-> ok, results |-> results]
HateFailure == HateResponse(FALSE, <<>>)

detectHateSpeechWith(resp, threshold) ==
  IF ~resp.ok
    THEN [success |-> FALSE, detected |-> FALSE, confidence |-> 0,
          primaryCategory |-> Undefined]
    ELSE
      LET results == resp.results
          over == {i \in 1..Len(results) : results[i].score > threshold}
          maxConfidence ==
            IF over = {} THEN 0 ELSE SetMax({results[i].score : i \in over})
          \* the strict > keeps the first result that reaches the maximum
          first == SetMin({i \in over : results[i].score = maxConfidence})
      IN [success |-> TRUE,
          detected |-> over # {},
          confidence |-> maxConfidence,
          primaryCategory |->
            IF over = {} THEN "null" ELSE categories(results[first].label)]

detectHateSpeechStrict(resp) == detectHateSpeechWith(resp, 80)

detectHateSpeech(resp) == detectHateSpeechWith(resp, DetectThreshold)

\* the largest score the classifier gave to a label of the hate-speech category
hateSpeechConfidence(resp) ==
  LET hs == {i \in 1..Len(resp.results) :
               categories(resp.results[i].label) = "hate_speech"}
  IN IF hs = {} THEN 0 ELSE SetMax({resp.results[i].score : i \in hs})

-----------------------------------------------------------------------------
(* Media classifier adapter (services/contentModeration.js)                *)

getConfidenceScore(level) ==
  CASE level = "VERY_LIKELY" -> 90
    [] level = "LIKELY" -> 70
    [] level = "POSSIBLE" -> 50
    [] level = "UNLIKELY" -> 30
    [] level = "VERY_UNLIKELY" -> 10
    [] OTHER -> 50

isLikely(level) == level = "LIKELY" \/ level = "VERY_LIKELY"

Signal(detected, confidence) == [detected |-> detected, confidence |-> confidence]

NoModeration ==
  [nudity |-> Signal(FALSE, 0), violence |-> Signal(FALSE, 0),
   explicit |-> Signal(FALSE, 0)]

\* The Vision API answer: ok = FALSE is any failure of the call.
SafeSearch(ok, adult, violence, racy) ==
  [ok |-> ok, adult |-> adult, violence |-> violence, racy |-> racy]
SafeSearchFailure == SafeSearch(FALSE, Undefined, Undefined, Undefined)

moderateImage(safeSearch) ==
  IF ~safeSearch.ok
    THEN [success |-> FALSE, moderation |-> NoModeration]
    ELSE [success |-> TRUE,
          moderation |->
            [nudity |-> Signal(isLikely(safeSearch.adult),
                               getConfidenceScore(safeSearch.adult)),
             violence |-> Signal(isLikely(safeSearch.violence),
                                 getConfidenceScore(safeSearch.violence)),
             explicit |-> Signal(isLikely(safeSearch.racy),
                                 getConfidenceScore(safeSearch.racy))]]

pollVideoResults ==
  [nudity |-> Signal(FALSE, 10), violence |-> Signal(FALSE, 10),
   explicit |-> Signal(FALSE, 10)]

\* jobOk: whether the POST that submits the video job succeeded
moderateVideo(jobOk) ==
  IF ~jobOk
    THEN [success |-> FALSE, moderation |-> NoModeration]
    ELSE [success |-> TRUE, moderation |-> pollVideoResults]

moderateMedia(mediaType, safeSearch, jobOk) ==
  IF mediaType = "image" THEN moderateImage(safeSearch)
  ELSE IF mediaType = "video" THEN moderateVideo(jobOk)
  ELSE [success |-> FALSE, moderation |-> NoModeration]

-----------------------------------------------------------------------------
(* Verdicts (routes/webhook.js)                                            *)

HateSpeech(set, detected, confidence, category) ==
  [set |-> set, detected |-> detected, confidence |-> confidence,
   category |-> category]
NoHateSpeech == HateSpeech(FALSE, FALSE, 0, Undefined)

ContentModeration(set, moderation) == [set |-> set, moderation |-> moderation]
NoContentModeration == ContentModeration(FALSE, NoModeration)

\* What a process*Message call yields.  threw: it raised instead of returning.
\* calls / failed: the adapter calls it made, and those that failed.
\* learn: it ran checkForNewWords on the text.
Outcome(threw, status, reason, hateSpeech, contentModeration, calls, failed, learn) ==
  [threw |-> threw, status |-> status, reason |-> reason,
   hateSpeech |-> hateSpeech, contentModeration |-> contentModeration,
   calls |-> calls, failed |-> failed, learn |-> learn]

\* the mutant of Returned with which every verdict is followed by learning
ReturnedLearning(status, reason, hateSpeech, contentModeration, calls, failed, learn) ==
  Outcome(FALSE, status, reason, hateSpeech, contentModeration, calls, failed, TRUE)

Returned(status, reason, hateSpeech, contentModeration, calls, failed, learn) ==
  Outcome(FALSE, status, reason, hateSpeech, contentModeration, calls, failed, learn)

Threw(calls, failed) ==
  Outcome(TRUE, Undefined, Undefined, NoHateSpeech, NoContentModeration,
          calls, failed, FALSE)

\* customBlockedWords.some(word => text.toLowerCase().includes(word.toLowerCase()))
hasWordsCaseSensitive(text, words) == \E w \in words : includes(text, w)

hasWords(text, words) == \E w \in words : matchesWord(text, w)

\* text is message.content.text; it is NoText when the document has none, and
\* then text.toLowerCase() and checkForNewWords raise a TypeError.
processTextMessage(text, settings, resp) ==
  IF settings.customBlockedWords # {} /\ text = NoText THEN Threw({}, {})
  ELSE IF hasWords(text, settings.customBlockedWords)
    THEN Returned("blocked", "custom_word", HateSpeech(TRUE, TRUE, 100, "custom"),
                  NoContentModeration, {}, {}, FALSE)
  ELSE IF settings.customAllowedWords # {} /\ text = NoText THEN Threw({}, {})
  ELSE IF hasWords(text, settings.customAllowedWords)
    THEN Returned("approved", Undefined, NoHateSpeech, NoContentModeration,
                  {}, {}, FALSE)
  ELSE
    LET hateSpeechResult == detectHateSpeech(resp) IN
    IF ~hateSpeechResult.success
      THEN Returned("error", "hate_speech_detection_failed", NoHateSpeech,
                    NoContentModeration, {"detectHateSpeech"},
                    {"detectHateSpeech"}, FALSE)
    ELSE IF hateSpeechResult.detected /\ settings.hateSpeechEnabled
      THEN Returned("blocked", "hate_speech",
                    HateSpeech(TRUE, TRUE, hateSpeechResult.confidence,
                               hateSpeechResult.primaryCategory),
                    NoContentModeration, {"detectHateSpeech"}, {}, FALSE)
    ELSE IF text = NoText THEN Threw({"detectHateSpeech"}, {})
    ELSE Returned("approved", Undefined, NoHateSpeech, NoContentModeration,
                  {"detectHateSpeech"}, {}, TRUE)

\* The transcriber's answer: ok = FALSE is any failure of the call.
Transcript(ok, text) == [ok |-> ok, text |-> text]
TranscriptFailure == Transcript(FALSE, NoText)

processTranscribedKeepingReason(text, settings, resp) ==
  LET textModeration == processTextMessage(text, settings, resp)
      calls == {"downloadMedia", "transcribeAudio"} \cup textModeration.calls
  IN IF textModeration.threw
       THEN Returned("error", "audio_processing_failed", NoHateSpeech,
                     NoContentModeration, calls, textModeration.failed, FALSE)
     ELSE IF textModeration.status = "blocked"
       THEN [textModeration EXCEPT !.calls = calls]
     ELSE Returned("approved", textModeration.reason, NoHateSpeech,
                   NoContentModeration, calls, textModeration.failed,
                   textModeration.learn)

\* processAudioMessage from "Process transcribed text" on, inside its try
processTranscribed(text, settings, resp) ==
  LET textModeration == processTextMessage(text, settings, resp)
      calls == {"downloadMedia", "transcribeAudio"} \cup textModeration.calls
  IN IF textModeration.threw
       THEN Returned("error", "audio_processing_failed", NoHateSpeech,
                     NoContentModeration, calls, textModeration.failed, FALSE)
     ELSE IF textModeration.status = "blocked"
       THEN [textModeration EXCEPT !.calls = calls]
     ELSE Returned("approved", Undefined, NoHateSpeech, NoContentModeration,
                   calls, textModeration.failed, textModeration.learn)

processAudioMessageFallThrough(text, settings, downloadOk, transcript, resp) ==
  IF ~downloadOk
    THEN Returned("error", "audio_download_failed", NoHateSpeech,
                  NoContentModeration, {"downloadMedia"}, {"downloadMedia"}, FALSE)
  ELSE IF ~transcript.ok
    THEN Returned("approved", Undefined, NoHateSpeech,
                  NoContentModeration, {"downloadMedia", "transcribeAudio"},
                  {"transcribeAudio"}, FALSE)
  ELSE processTranscribed(text, settings, resp)

\* text is message.content.text of the audio message, not the transcription
processAudioMessage(text, settings, downloadOk, transcript, resp) ==
  IF ~downloadOk
    THEN Returned("error", "audio_download_failed", NoHateSpeech,
                  NoContentModeration, {"downloadMedia"}, {"downloadMedia"}, FALSE)
  ELSE IF ~transcript.ok
    THEN Returned("error", "transcription_failed", NoHateSpeech,
                  NoContentModeration, {"downloadMedia", "transcribeAudio"},
                  {"transcribeAudio"}, FALSE)
  ELSE processTranscribed(text, settings, resp)

processMediaMessageUntoggled(messageType, settings, downloadOk, safeSearch, jobOk) ==
  IF ~downloadOk
    THEN Returned("error", "media_download_failed", NoHateSpeech,
                  NoContentModeration, {"downloadMedia"}, {"downloadMedia"}, FALSE)
  ELSE
    LET moderationResult == moderateMedia(messageType, safeSearch, jobOk)
        calls == {"downloadMedia", "moderateMedia"}
        moderation == moderationResult.moderation
        nudity == moderation.nudity.detected
        violence == moderation.violence.detected
        explicit == moderation.explicit.detected
        reason == IF explicit THEN "explicit_content"
                  ELSE IF violence THEN "violence"
                  ELSE IF nudity THEN "nudity"
                  ELSE ""
    IN IF ~moderationResult.success
         THEN Returned("error", "media_moderation_failed", NoHateSpeech,
                       NoContentModeration, calls, {"moderateMedia"}, FALSE)
       ELSE IF nudity \/ violence \/ explicit
         THEN Returned("blocked", reason, NoHateSpeech,
                       ContentModeration(TRUE, moderation), calls, {}, FALSE)
       ELSE Returned("approved", Undefined, NoHateSpeech,
                     ContentModeration(TRUE, moderation), calls, {}, FALSE)

processMediaMessage(messageType, settings, downloadOk, safeSearch, jobOk) ==
  IF ~downloadOk
    THEN Returned("error", "media_download_failed", NoHateSpeech,
                  NoContentModeration, {"downloadMedia"}, {"downloadMedia"}, FALSE)
  ELSE
    LET moderationResult == moderateMedia(messageType, safeSearch, jobOk)
        calls == {"downloadMedia", "moderateMedia"}
        moderation == moderationResult.moderation
        nudity == moderation.nudity.detected /\ settings.nudityEnabled
        violence == moderation.violence.detected /\ settings.violenceEnabled
        explicit == moderation.explicit.detected
        \* three successive ifs, each overwriting reason
        reason == IF explicit THEN "explicit_content"
                  ELSE IF violence THEN "violence"
                  ELSE IF nudity THEN "nudity"
                  ELSE ""
    IN IF ~moderationResult.success
         THEN Returned("error", "media_moderation_failed", NoHateSpeech,
                       NoContentModeration, calls, {"moderateMedia"}, FALSE)
       ELSE IF nudity \/ violence \/ explicit
         THEN Returned("blocked", reason, NoHateSpeech,
                       ContentModeration(TRUE, moderation), calls, {}, FALSE)
       ELSE Returned("approved", Undefined, NoHateSpeech,
                     ContentModeration(TRUE, moderation), calls, {}, FALSE)

-----------------------------------------------------------------------------
(* Vocabulary learning (checkForNewWords in routes/webhook.js)             *)

Whitespace == {" "}
WordChars == {"a", "b", "c", "x", "y", "z", "A", "B", "C", "X", "Y", "Z", "_"}

Str3(a, b, c) == <<a, b, c>>
commonWords ==
  {Str3("t", "h", "e"), <<"a">>, <<"a", "n">>, Str3("a", "n", "d"), <<"o", "r">>,
   Str3("b", "u", "t"), <<"i", "n">>, <<"o", "n">>, <<"a", "t">>, <<"t", "o">>,
   Str3("f", "o", "r"), <<"o", "f">>, <<"w", "i", "t", "h">>, <<"b", "y">>}

\* text.split(/\s+/) without its empty strings (the length test drops them):
\* the maximal runs of non-whitespace, in order
RECURSIVE splitFrom(_, _)
splitFrom(s, i) ==
  IF i > Len(s) THEN <<>>
  ELSE IF s[i] \in Whitespace THEN splitFrom(s, i + 1)
  ELSE LET ends == {j \in i..Len(s) : j = Len(s) \/ s[j + 1] \in Whitespace}
           j == SetMin(ends)
       IN <<SubSeq(s, i, j)>> \o splitFrom(s, j + 1)

split(s) == splitFrom(s, 1)

\* word.replace(/[^\w]/g, '')
cleanWordOf(word) == LET isWordChar(c) == c \in WordChars IN SelectSeq(word, isWordChar)

\* Message.find({userId, 'moderation.status': 'blocked',
\*               'content.text': {$regex: cleanWord, $options: 'i'}})
blockedMessagesWithAnyStatus(msgs, userId, cleanWord) ==
  {m \in msgs : /\ m.userId = userId
                /\ m.content.text # NoText
                /\ matchesWord(m.content.text, cleanWord)}

blockedMessagesWith(msgs, userId, cleanWord) ==
  {m \in msgs : /\ m.userId = userId
                /\ m.moderation.status = "blocked"
                /\ m.content.text # NoText
                /\ matchesWord(m.content.text, cleanWord)}

MinBlockedOccurrences == 3
MinWordLength == 2

\* cleanWord.length > 2 && !commonWords.includes(cleanWord)
qualifies(cleanWord) ==
  Len(cleanWord) > MinWordLength /\ cleanWord \notin commonWords

\* The loop of checkForNewWords runs without suspension over the words that
\* fail the test: what is left of the word list at the next Message.find
RECURSIVE nextCandidate(_)
nextCandidate(words) ==
  IF words = <<>> THEN <<>>
  ELSE IF qualifies(cleanWordOf(Head(words))) THEN words
  ELSE nextCandidate(Tail(words))

\* the word list checkForNewWords(text, user) starts with
checkForNewWords(text) == nextCandidate(split(toLowerCase(text)))

\* String.prototype.trim, and the schema's setters of NewWord.word
RECURSIVE trimStart(_)
trimStart(s) ==
  IF s # <<>> /\ Head(s) \in Whitespace THEN trimStart(Tail(s)) ELSE s

RECURSIVE trimEnd(_)
trimEnd(s) ==
  IF s # <<>> /\ s[Len(s)] \in Whitespace
    THEN trimEnd(SubSeq(s, 1, Len(s) - 1)) ELSE s

trim(s) == trimEnd(trimStart(s))

normalizeWord(word) == toLowerCase(trim(word))

NoDate == 0

UserDecision(markedAsHateSpeech, decisionDate, decisionReason) ==
  [markedAsHateSpeech |-> markedAsHateSpeech, decisionDate |-> decisionDate,
   decisionReason |-> decisionReason]

\* new NewWord({userId, word, detection: {frequency}}) with the schema defaults
NewWordDoc(oid, userId, word, frequency) ==
  [_id |-> oid, userId |-> userId, word |-> normalizeWord(word),
   frequency |-> frequency, lastDetected |-> now, status |-> "pending",
   userDecision |-> UserDecision(FALSE, NoDate, Undefined)]
NoNewWord ==
  [_id |-> 0, userId |-> Undefined, word |-> <<>>, frequency |-> 0,
   lastDetected |-> NoDate, status |-> "pending",
   userDecision |-> UserDecision(FALSE, NoDate, Undefined)]

\* NewWord.findOne({userId, word}): the documents it may return
findOneNewWord(nw, userId, word) ==
  LET found == {d \in nw : d.userId = userId /\ d.word = normalizeWord(word)}
  IN IF found = {} THEN {NoNewWord} ELSE found

\* NewWord collection: the unique index on (userId, word) rejects the insert
insertNewWordNoIndex(nw, doc) == [ok |-> TRUE, nw |-> nw \cup {doc}]

insertNewWord(nw, doc) ==
  IF \E d \in nw : d.userId = doc.userId /\ d.word = doc.word
    THEN [ok |-> FALSE, nw |-> nw]
    ELSE [ok |-> TRUE, nw |-> nw \cup {doc}]

\* doc is the document as it was read: frequency += 1 in memory, then save()
\* sets the stored frequency to the new in-memory value
incrementFrequency(nw, doc) ==
  {IF d._id = doc._id
     THEN [d EXCEPT !.frequency = doc.frequency + 1, !.lastDetected = now]
     ELSE d
     : d \in nw}

\* markAsHateSpeech / rejectWord / ignoreWord: the fields the method sets on
\* the document in memory before it calls save()
markAsHateSpeech(doc, reason, date) ==
  [doc EXCEPT !.status = "approved",
              !.userDecision = UserDecision(TRUE, date, reason)]

rejectWord(doc, reason, date) ==
  [doc EXCEPT !.status = "rejected",
              !.userDecision = UserDecision(FALSE, date, reason)]

ignoreWord(doc, reason, date) ==
  [doc EXCEPT !.status = "ignored",
              !.userDecision = UserDecision(FALSE, date, reason)]

\* switch (action) of the review handlers
reviewed(doc, action, reason, date) ==
  CASE action = "approve" -> markAsHateSpeech(doc, reason, date)
    [] action = "reject" -> rejectWord(doc, reason, date)
    [] action = "ignore" -> ignoreWord(doc, reason, date)
    [] OTHER -> doc

\* save() of a reviewed document: $set of the paths the method modified
saveDecision(nw, doc) ==
  {IF d._id = doc._id
     THEN [d EXCEPT !.status = doc.status, !.userDecision = doc.userDecision]
     ELSE d
     : d \in nw}

\* the locals of checkForNewWords between two suspension points
Learning(words, blockedMessages, newWord) ==
  [words |-> words, blockedMessages |-> blockedMessages, newWord |-> newWord]
NotLearning == Learning(<<>>, 0, NoNewWord)

-----------------------------------------------------------------------------
(* Documents                                                               *)

\* An optional string of the webhook payload
Absent == [defined |-> FALSE, value |-> <<>>]
Present(str) == [defined |-> TRUE, value |-> str]

\* one element of processWebhook(...).messages, as processIncomingMessage reads it
MessageData(id, to, type, text) ==
  [id |-> id, from |-> Sender, to |-> to, type |-> type, text |-> text]
NoMessageData == MessageData(Undefined, Undefined, Undefined, Absent)

\* if (messageData.text) content.text = messageData.text
extractContent(md) ==
  [text |-> IF md.text.defined /\ md.text.value # <<>> THEN md.text.value ELSE NoText]

Moderation(status, reason, hateSpeech, contentModeration) ==
  [status |-> status, reason |-> reason, hateSpeech |-> hateSpeech,
   contentModeration |-> contentModeration]

\* message.response: sent is the schema default until a reply is recorded
Response(sent) == [sent |-> sent]

\* new Message({...}): the schema defaults fill moderation.status,
\* response.sent, and metadata.status is given as 'received'
NewMessage(oid, userId, md) ==
  [_id |-> oid, userId |-> userId, whatsappMessageId |-> md.id,
   from |-> md.from, to |-> md.to, messageType |-> md.type,
   content |-> extractContent(md),
   transcription |-> TranscriptFailure,
   moderation |-> Moderation("pending", Undefined, NoHateSpeech, NoContentModeration),
   status |-> "received",
   response |-> Response(FALSE)]
NoMessage == NewMessage(0, Undefined, NoMessageData)

ModerationSettings(hs, nu, vi, ab, blocked, allowed) ==
  [hateSpeechEnabled |-> hs, nudityEnabled |-> nu, violenceEnabled |-> vi,
   autoBlock |-> ab, customBlockedWords |-> blocked, customAllowedWords |-> allowed]

\* the schema defaults of User.moderationSettings
DefaultSettings == ModerationSettings(TRUE, TRUE, TRUE, TRUE, {}, {})

AllSettings ==
  {ModerationSettings(hs, nu, vi, ab, blocked, allowed) :
     hs \in BOOLEAN, nu \in BOOLEAN, vi \in BOOLEAN, ab \in BOOLEAN,
     blocked \in SUBSET BlockedPool, allowed \in SUBSET AllowedPool}

UserDoc(u, settings) ==
  [_id |-> u, whatsappNumber |-> NumberOf(u), moderationSettings |-> settings]
NoUser == [_id |-> Undefined, whatsappNumber |-> Undefined,
           moderationSettings |-> DefaultSettings]

Observed(calls, failed, resp, transcript, safeSearch) ==
  [calls |-> calls, failed |-> failed, resp |-> resp, transcript |-> transcript,
   safeSearch |-> safeSearch]
NoObs == Observed({}, {}, HateFailure, TranscriptFailure, SafeSearchFailure)

\* User.findOne({whatsappNumber: number}): the documents it may return.  With
\* number undefined the filter matches no user or is empty, depending on how
\* the library treats the undefined value, and an empty filter matches any user.
findOneUser(usrs, number) ==
  LET found == {usrs[u] : u \in {v \in DOMAIN usrs : usrs[v].whatsappNumber = number}}
  IN IF number = Undefined THEN {NoUser} \cup {usrs[u] : u \in DOMAIN usrs}
     ELSE IF found = {} THEN {NoUser}
     ELSE found

\* the validation save() runs before the insert: the required paths
validates(doc) ==
  /\ doc.userId # Undefined
  /\ doc.whatsappMessageId # Undefined
  /\ doc.from # Undefined
  /\ doc.to # Undefined
  /\ doc.messageType \in MessageTypes
  /\ doc.moderation.status \in {"pending", "approved", "blocked", "error"}

\* Message collection: validation, then the unique index on whatsappMessageId
\* rejects the insert
insertMessageNoIndex(msgs, doc) ==
  IF ~validates(doc)
    THEN [ok |-> FALSE, msgs |-> msgs]
    ELSE [ok |-> TRUE, msgs |-> msgs \cup {doc}]

insertMessage(msgs, doc) ==
  IF ~validates(doc) \/ \E m \in msgs : m.whatsappMessageId = doc.whatsappMessageId
    THEN [ok |-> FALSE, msgs |-> msgs]
    ELSE [ok |-> TRUE, msgs |-> msgs \cup {doc}]

\* document.save() of a stored document: $set of the paths modified in memory
updateMessage(msgs, oid, status, response) ==
  {IF m._id = oid THEN [m EXCEPT !.status = status, !.response = response] ELSE m
     : m \in msgs}

\* sendModerationResponse: the text chosen for a reason
responseKey(reason) ==
  IF reason \in {"hate_speech", "nudity", "violence", "explicit_content", "custom_word"}
    THEN reason ELSE "default"

\* an event emitted to the room of a user
Event(userId, name, subject) == [userId |-> userId, name |-> name, subject |-> subject]

-----------------------------------------------------------------------------
(* The webhook endpoint (router.post('/whatsapp'), services/whatsappService) *)

AccessToken == "token"

\* HMAC-SHA256 in hex: the digest is determined by the key and the payload,
\* and different pairs give different digests
createHmac(key, payload) == [key |-> key, payload |-> payload]

\* the x-hub-signature-256 header: absent, or a prefix and a digest
SignatureHeader(defined, prefix, digest) ==
  [defined |-> defined, prefix |-> prefix, digest |-> digest]

\* The bytes of a request: one of the texts that denote a JSON value. The form
\* "compact" is the text JSON.stringify produces for the value; "spaced" is a
\* text of the same value with other whitespace between its tokens.
Payload(json, form) == [json |-> json, form |-> form]

\* express.json() (index.js:62): req.body is the value the bytes denote
parse(payload) == payload.json

\* JSON.stringify(req.body)
stringify(body) == Payload(body, "compact")

verifySignature(payload, signature) ==
  /\ signature.defined
  /\ signature.prefix = "sha256="
  /\ signature.digest = createHmac(AccessToken, payload)

\* one element of change.value.messages of the provider's payload
ProviderMessage(id, type, text) == [id |-> id, from |-> Sender, type |-> type, text |-> text]

\* one element of body.entry: either its changes can be iterated and carry
\* messages, or it is malformed and iterating it raises
Entry(wellFormed, msgs) == [wellFormed |-> wellFormed, messages |-> msgs]

Body(object, entry) == [object |-> object, entry |-> entry]
NoBody == Body(Undefined, <<>>)
NoPayload == Payload(NoBody, "compact")
NoSignature == SignatureHeader(FALSE, "", createHmac("", NoPayload))

\* messages.push({id, from, timestamp, type, text, ...}): no `to` is set
normalize(m) == MessageData(m.id, Undefined, m.type, m.text)

RECURSIVE messagesOf(_)
messagesOf(entry) ==
  IF entry = <<>> THEN <<>>
  ELSE [i \in 1..Len(Head(entry).messages) |-> normalize(Head(entry).messages[i])]
         \o messagesOf(Tail(entry))

\* the mutant of processWebhook that skips the entries it cannot iterate
processWebhookSkipping(body) ==
  IF body.object # "whatsapp_business_account"
    THEN [success |-> FALSE, messages |-> <<>>]
  ELSE LET wellFormed(e) == e.wellFormed IN
       [success |-> TRUE, messages |-> messagesOf(SelectSeq(body.entry, wellFormed))]

processWebhook(body) ==
  IF body.object # "whatsapp_business_account"
    THEN [success |-> FALSE, messages |-> <<>>]
  ELSE IF \E i \in 1..Len(body.entry) : ~body.entry[i].wellFormed
    THEN [success |-> FALSE, messages |-> <<>>]
  ELSE [success |-> TRUE, messages |-> messagesOf(body.entry)]

\* the request a handler of router.post('/whatsapp') serves: stage is "none"
\* outside a request, "loop" inside the for loop, "responded" once answered
Request(stage, payload, signature, queue, status, persistFailed) ==
  [stage |-> stage, payload |-> payload, body |-> parse(payload),
   signature |-> signature, queue |-> queue, status |-> status,
   persistFailed |-> persistFailed]
NoRequest == Request("none", NoPayload, NoSignature, <<>>, 0, FALSE)

-----------------------------------------------------------------------------
(* Input domains: what the provider and the external services may deliver  *)

HateResponses ==
  {HateFailure} \cup
  {HateResponse(TRUE, <<[label |-> "toxic", score |-> s1],
                        [label |-> "obscene", score |-> s2]>>) :
     s1 \in Scores, s2 \in Scores}

Transcripts == {TranscriptFailure} \cup {Transcript(TRUE, t) : t \in Texts}

SafeSearches ==
  {SafeSearchFailure} \cup
  {SafeSearch(TRUE, a, v, r) : a \in Levels, v \in Levels, r \in Levels}

\* A text message carries a body (possibly empty); the other kinds carry a
\* media descriptor and no text.
MessageDatas(ids, texts) ==
  {MessageData(id, to, "text", Present(t)) :
     id \in ids, to \in {NumberOf(u) : u \in UserIds} \cup {UnknownNumber},
     t \in texts \cup {<<>>}}
  \cup
  {MessageData(id, to, type, Absent) :
     id \in ids, to \in {NumberOf(u) : u \in UserIds} \cup {UnknownNumber},
     type \in MessageTypes \ {"text"}}

Domains(messageDatas, hate, transcripts, safeSearch) ==
  [messageDatas |-> messageDatas, hate |-> hate,
   transcripts |-> transcripts, safeSearch |-> safeSearch]

-----------------------------------------------------------------------------
(* processIncomingMessage, one action per stretch between suspension points *)

shared == <<users, messages, newWords, outbox>>
clients == <<op, emitted, verification>>
limits == <<authAttempts, authRequests>>

\* the deliveries the provider can make now; it may deliver an id again
Deliverable(D) ==
  IF deliveries > 0 THEN D.messageDatas ELSE {}

\* processIncomingMessage(md) is called and runs to its first await
invoke(p, md) ==
  /\ pc' = [pc EXCEPT ![p] = "find"]
  /\ messageData' = [messageData EXCEPT ![p] = md]
  /\ user' = [user EXCEPT ![p] = NoUser]
  /\ message' = [message EXCEPT ![p] = NoMessage]
  /\ obs' = [obs EXCEPT ![p] = NoObs]
  /\ learner' = [learner EXCEPT ![p] = NotLearning]

\* the mutant of Return in which a failed save ends the loop of the request
ReturnEndingLoop(p, saveFailed) ==
  /\ pc' = [pc EXCEPT ![p] = "idle"]
  /\ messageData' = [messageData EXCEPT ![p] = NoMessageData]
  /\ user' = [user EXCEPT ![p] = NoUser]
  /\ message' = [message EXCEPT ![p] = NoMessage]
  /\ obs' = [obs EXCEPT ![p] = NoObs]
  /\ learner' = [learner EXCEPT ![p] = NotLearning]
  /\ request' = [request EXCEPT ![p] =
       IF request[p].stage = "loop"
         THEN [request[p] EXCEPT !.stage = "responded",
                                 !.status = IF saveFailed THEN 500 ELSE 200,
                                 !.persistFailed = @ \/ saveFailed]
         ELSE request[p]]

\* processIncomingMessage returns, normally or from its catch block.  Inside
\* the for loop of a webhook request the loop goes on with the next message,
\* or the request is answered 200.
Return(p, saveFailed) ==
  LET q == [request[p] EXCEPT !.persistFailed = @ \/ saveFailed] IN
  IF q.stage = "loop" /\ q.queue # <<>>
    THEN /\ invoke(p, Head(q.queue))
         /\ request' = [request EXCEPT ![p] = [q EXCEPT !.queue = Tail(q.queue)]]
    ELSE /\ pc' = [pc EXCEPT ![p] = "idle"]
         /\ messageData' = [messageData EXCEPT ![p] = NoMessageData]
         /\ user' = [user EXCEPT ![p] = NoUser]
         /\ message' = [message EXCEPT ![p] = NoMessage]
         /\ obs' = [obs EXCEPT ![p] = NoObs]
         /\ learner' = [learner EXCEPT ![p] = NotLearning]
         /\ request' = [request EXCEPT ![p] =
              IF q.stage = "loop"
                THEN [q EXCEPT !.stage = "responded", !.status = 200]
                ELSE request[p]]

Finish(p) == Return(p, FALSE)

freshOid ==
  SetMin({n \in 1..(Cardinality(messages) + Cardinality(DOMAIN pc) + 1) :
            /\ \A m \in messages : m._id # n
            /\ \A q \in DOMAIN pc : message[q]._id # n})

freshWordId ==
  SetMin({n \in 1..(Cardinality(newWords) + 1) : \A d \in newWords : d._id # n})

\* processIncomingMessage is called with a message the provider delivers
receiveMessage(p, D) ==
  /\ pc[p] = "idle"
  /\ request[p].stage = "none"
  /\ \E md \in Deliverable(D) : invoke(p, md)
  /\ deliveries' = deliveries - 1
  /\ UNCHANGED <<shared, request, clients, now, limits>>

\* User.findOne({whatsappNumber: messageData.to}) finds nobody: return
dropMessageStoring(p) ==
  /\ pc[p] = "find"
  /\ NoUser \in findOneUser(users, messageData[p].to)
  /\ messages' = messages \cup
       {NewMessage(freshOid, Undefined, messageData[p])}
  /\ Finish(p)
  /\ UNCHANGED <<users, newWords, outbox, deliveries, clients, now, limits>>

dropMessage(p) ==
  /\ pc[p] = "find"
  /\ NoUser \in findOneUser(users, messageData[p].to)
  /\ Finish(p)
  /\ UNCHANGED <<shared, deliveries, clients, now, limits>>

\* the if / else-if chain on messageData.type
branchOfDocumentAsMedia(type) ==
  IF type = "text" THEN "text"
  ELSE IF type = "audio" THEN "audio"
  ELSE IF type = "image" \/ type = "video" \/ type = "document" THEN "media"
  ELSE "none"

branchOf(type) ==
  IF type = "text" THEN "text"
  ELSE IF type = "audio" THEN "audio"
  ELSE IF type = "image" \/ type = "video" THEN "media"
  ELSE "none"

\* the user is found and the Message document is constructed
findUser(p) ==
  /\ pc[p] = "find"
  /\ \E u \in findOneUser(users, messageData[p].to) \ {NoUser} :
       /\ user' = [user EXCEPT ![p] = u]
       /\ message' = [message EXCEPT ![p] =
            NewMessage(freshOid, u._id, messageData[p])]
  /\ pc' = [pc EXCEPT ![p] = "classify"]
  /\ UNCHANGED <<shared, deliveries, messageData, obs, learner, request, clients,
                 now, limits>>

\* the loop of checkForNewWords goes on with the given words
continueWith(p, words) ==
  LET rest == nextCandidate(words) IN
    /\ learner' = [learner EXCEPT ![p] = Learning(rest, 0, NoNewWord)]
    /\ pc' = [pc EXCEPT ![p] = IF rest = <<>> THEN "save" ELSE "count"]

\* The process*Message call has its outcome: the exception reaches the catch,
\* or checkForNewWords starts, or message.moderation = moderationResult
Classified(p, r, resp, transcript, safeSearch) ==
  IF r.threw
    THEN Finish(p) /\ UNCHANGED <<shared, deliveries, clients, now, limits>>
    ELSE
      /\ message' = [message EXCEPT
           ![p].moderation =
              Moderation(r.status, r.reason, r.hateSpeech, r.contentModeration),
           ![p].transcription =
              IF "transcribeAudio" \in r.calls THEN transcript ELSE @]
      /\ obs' = [obs EXCEPT ![p] =
           Observed(r.calls, r.failed,
                    IF "detectHateSpeech" \in r.calls THEN resp ELSE HateFailure,
                    IF "transcribeAudio" \in r.calls THEN transcript
                                                     ELSE TranscriptFailure,
                    IF "moderateMedia" \in r.calls /\ message[p].messageType = "image"
                      THEN safeSearch ELSE SafeSearchFailure)]
      /\ continueWith(p, IF r.learn THEN split(toLowerCase(message[p].content.text))
                                    ELSE <<>>)
      /\ UNCHANGED <<shared, deliveries, messageData, user, request, clients, now, limits>>

classifyText(p, D) ==
  /\ pc[p] = "classify"
  /\ branchOf(messageData[p].type) = "text"
  /\ \E resp \in D.hate :
       Classified(p, processTextMessage(message[p].content.text,
                                        user[p].moderationSettings, resp),
                  resp, TranscriptFailure, SafeSearchFailure)

classifyAudio(p, D) ==
  /\ pc[p] = "classify"
  /\ branchOf(messageData[p].type) = "audio"
  /\ \E downloadOk \in BOOLEAN, transcript \in D.transcripts, resp \in D.hate :
       Classified(p, processAudioMessage(message[p].content.text,
                                         user[p].moderationSettings,
                                         downloadOk, transcript, resp),
                  resp, transcript, SafeSearchFailure)

classifyMedia(p, D) ==
  /\ pc[p] = "classify"
  /\ branchOf(messageData[p].type) = "media"
  /\ \E downloadOk \in BOOLEAN, safeSearch \in D.safeSearch, jobOk \in BOOLEAN :
       Classified(p, processMediaMessage(message[p].messageType,
                                         user[p].moderationSettings,
                                         downloadOk, safeSearch, jobOk),
                  HateFailure, TranscriptFailure, safeSearch)

\* any other kind keeps moderationResult = { status: 'approved' }
classifyOther(p) ==
  /\ pc[p] = "classify"
  /\ branchOf(messageData[p].type) = "none"
  /\ Classified(p, Returned("approved", Undefined, NoHateSpeech,
                            NoContentModeration, {}, {}, FALSE),
                HateFailure, TranscriptFailure, SafeSearchFailure)

\* checkForNewWords: await Message.find(...) for the current word
findBlockedMessages(p) ==
  /\ pc[p] = "count"
  /\ LET cleanWord == cleanWordOf(Head(learner[p].words))
         blockedMessages == blockedMessagesWith(messages, user[p]._id, cleanWord)
     IN IF Cardinality(blockedMessages) >= MinBlockedOccurrences
          THEN /\ learner' = [learner EXCEPT
                    ![p].blockedMessages = Cardinality(blockedMessages)]
               /\ pc' = [pc EXCEPT ![p] = "lookup"]
          ELSE continueWith(p, Tail(learner[p].words))
  /\ UNCHANGED <<shared, deliveries, messageData, user, message, obs, request,
                 clients, now, limits>>

\* checkForNewWords: await NewWord.findOne({userId, word})
findNewWord(p) ==
  /\ pc[p] = "lookup"
  /\ \E d \in findOneNewWord(newWords, user[p]._id,
                             cleanWordOf(Head(learner[p].words))) :
       learner' = [learner EXCEPT ![p].newWord = d]
  /\ pc' = [pc EXCEPT ![p] = "track"]
  /\ UNCHANGED <<shared, deliveries, messageData, user, message, obs, request,
                 clients, now, limits>>

\* checkForNewWords: await newWord.save() or await newWord.incrementFrequency();
\* a rejected insert raises, up to the catch of processIncomingMessage
saveNewWord(p) ==
  /\ pc[p] = "track"
  /\ LET cleanWord == cleanWordOf(Head(learner[p].words))
         r == insertNewWord(newWords,
                NewWordDoc(freshWordId, user[p]._id, cleanWord,
                           learner[p].blockedMessages))
     IN IF learner[p].newWord # NoNewWord
          THEN /\ newWords' = incrementFrequency(newWords, learner[p].newWord)
               /\ continueWith(p, Tail(learner[p].words))
               /\ UNCHANGED <<messageData, user, message, obs, request>>
        ELSE IF r.ok
          THEN /\ newWords' = r.nw
               /\ continueWith(p, Tail(learner[p].words))
               /\ UNCHANGED <<messageData, user, message, obs, request>>
        ELSE Finish(p) /\ UNCHANGED newWords
  /\ UNCHANGED <<users, messages, outbox, deliveries, clients, now, limits>>

\* await message.save(): the insert, which the store may also fail
saveMessage(p) ==
  /\ pc[p] = "save"
  /\ \E writeOk \in BOOLEAN :
       LET r == insertMessage(messages, message[p]) IN
       IF writeOk /\ r.ok
         THEN /\ messages' = r.msgs
              /\ pc' = [pc EXCEPT ![p] = "handle"]
              /\ UNCHANGED <<users, newWords, outbox, messageData, user, message,
                             obs, learner, request>>
         ELSE Return(p, TRUE) /\ UNCHANGED shared
  /\ UNCHANGED <<deliveries, clients, now, limits>>

\* whether handleBlockedMessage sends the automated response
repliesAlways(settings) == TRUE

replies(settings) == settings.autoBlock

\* handleBlockedMessage: await whatsappService.sendModerationResponse(...)
handleBlockedMessage(p) ==
  /\ pc[p] = "handle"
  /\ message[p].moderation.status = "blocked"
  /\ IF replies(user[p].moderationSettings)
       THEN /\ \E sendOk \in BOOLEAN :
                 /\ outbox' = IF sendOk
                      THEN outbox \cup
                             {[to |-> message[p].from,
                               text |-> responseKey(message[p].moderation.reason)]}
                      ELSE outbox
                 /\ obs' = [obs EXCEPT
                      ![p].calls = @ \cup {"sendTextMessage"},
                      ![p].failed = IF sendOk THEN @ ELSE @ \cup {"sendTextMessage"}]
            /\ pc' = [pc EXCEPT ![p] = "reply"]
            /\ UNCHANGED <<messageData, user, message, learner, request>>
       ELSE Finish(p) /\ UNCHANGED outbox
  /\ UNCHANGED <<users, messages, newWords, deliveries, clients, now, limits>>

\* handleBlockedMessage: if (response.success) { message.response = ...; save }
saveResponse(p) ==
  /\ pc[p] = "reply"
  /\ IF "sendTextMessage" \in obs[p].failed
       THEN UNCHANGED messages
       ELSE \E writeOk \in BOOLEAN :
              messages' = IF writeOk
                THEN updateMessage(messages, message[p]._id, message[p].status,
                                   Response(TRUE))
                ELSE messages
  /\ Finish(p)
  /\ UNCHANGED <<users, newWords, outbox, deliveries, clients, now, limits>>

\* handleApprovedMessage, reached for every status other than 'blocked'
handleApprovedMessage(p) ==
  /\ pc[p] = "handle"
  /\ message[p].moderation.status # "blocked"
  /\ \E writeOk \in BOOLEAN :
       messages' = IF writeOk
         THEN updateMessage(messages, message[p]._id, "delivered",
                            message[p].response)
         ELSE messages
  /\ Finish(p)
  /\ UNCHANGED <<users, newWords, outbox, deliveries, clients, now, limits>>

-----------------------------------------------------------------------------
(* router.post('/whatsapp')                                                *)

\* what the provider, or anybody else, may put in the signature header: no
\* header, the signature of the bytes sent, the signature of the compact text
\* of their value, another prefix, another key, or the signature of other bytes
Signatures(payload) ==
  {NoSignature,
   SignatureHeader(TRUE, "sha256=", createHmac(AccessToken, payload)),
   SignatureHeader(TRUE, "sha256=", createHmac(AccessToken, stringify(parse(payload)))),
   SignatureHeader(TRUE, "sha1=", createHmac(AccessToken, payload)),
   SignatureHeader(TRUE, "sha256=", createHmac("guess", payload)),
   SignatureHeader(TRUE, "sha256=",
                   createHmac(AccessToken,
                              stringify(Body("whatsapp_business_account", <<>>))))}

\* the handler up to its first await: the signature check, the normalisation,
\* and the call of processIncomingMessage for the first message
postWhatsapp(p, payloads) ==
  /\ pc[p] = "idle"
  /\ request[p].stage \in {"none", "responded"}
  /\ deliveries > 0
  /\ deliveries' = deliveries - 1
  /\ \E sent \in payloads : \E signature \in Signatures(sent) :
       LET body == parse(sent)
           payload == stringify(body)
           webhookData == processWebhook(body)
           answered(status) ==
             /\ request' = [request EXCEPT ![p] =
                  Request("responded", sent, signature, <<>>, status, FALSE)]
             /\ UNCHANGED <<pc, messageData, user, message, obs, learner>>
       IN IF ~verifySignature(payload, signature) THEN answered(401)
          ELSE IF ~webhookData.success THEN answered(400)
          ELSE IF webhookData.messages = <<>> THEN answered(200)
          ELSE /\ invoke(p, Head(webhookData.messages))
               /\ request' = [request EXCEPT ![p] =
                    Request("loop", sent, signature, Tail(webhookData.messages),
                            0, FALSE)]
  /\ UNCHANGED <<shared, clients, now, limits>>

-----------------------------------------------------------------------------
(* The owner's operations on tracked words (socket/handlers.js, routes/user) *)

Operation(stage, kind, userId, word, action, reason, newWord, remaining) ==
  [stage |-> stage, kind |-> kind, userId |-> userId, word |-> word,
   action |-> action, reason |-> reason, newWord |-> newWord,
   message |-> NoMessage, remaining |-> remaining]

\* the handler is done; it may serve `remaining` more operations
Idle(remaining) ==
  Operation("idle", Undefined, Undefined, <<>>, Undefined, Undefined, NoNewWord,
            remaining)

OwnerDomains(words, actions, reasons) ==
  [words |-> words, actions |-> actions, reasons |-> reasons]

\* socket.on('new_word_detected'): await NewWord.findOne({userId, word})
newWordDetected(h, O) ==
  /\ op[h].stage = "idle"
  /\ op[h].remaining > 0
  /\ \E u \in DOMAIN users, word \in O.words :
       \E d \in findOneNewWord(newWords, u, toLowerCase(word)) :
         op' = [op EXCEPT ![h] =
           Operation("save", "new_word_detected", u, word, Undefined, Undefined,
                     d, op[h].remaining - 1)]
  /\ UNCHANGED <<shared, deliveries, pc, messageData, user, message, obs, learner,
                 request, emitted, verification, now, limits>>

\* socket.on('new_word_detected'): await newWord.save() or incrementFrequency(),
\* then the emit if the word is pending
newWordDetectedSave(h) ==
  /\ op[h].stage = "save"
  /\ op[h].kind = "new_word_detected"
  /\ LET u == op[h].userId
         d == op[h].newWord
         created == NewWordDoc(freshWordId, u, toLowerCase(op[h].word), 1)
         r == insertNewWord(newWords, created)
         notice(doc, frequency) ==
           Event(u, "new_word_detected", [wordId |-> doc._id, frequency |-> frequency])
     IN IF d # NoNewWord
          THEN /\ newWords' = incrementFrequency(newWords, d)
               /\ emitted' = IF d.status = "pending"
                    THEN emitted \cup {notice(d, d.frequency + 1)} ELSE emitted
        ELSE IF r.ok
          THEN /\ newWords' = r.nw
               /\ emitted' = emitted \cup {notice(created, 1)}
        ELSE UNCHANGED <<newWords, emitted>>
  /\ op' = [op EXCEPT ![h] = Idle(op[h].remaining)]
  /\ UNCHANGED <<users, messages, outbox, deliveries, pc, messageData, user,
                 message, obs, learner, request, verification, now, limits>>

\* a review handler up to the save: await NewWord.findOne({_id, userId}), then
\* the switch on the action, which sets the decision on the document in memory
startReview(h, kind, O) ==
  /\ op[h].stage = "idle"
  /\ op[h].remaining > 0
  /\ \E u \in DOMAIN users, wordId \in {d._id : d \in newWords} \cup {0},
        action \in O.actions, reason \in O.reasons :
       LET found == {d \in newWords : d._id = wordId /\ d.userId = u} IN
       IF found = {}
         THEN /\ op' = [op EXCEPT ![h] = Idle(op[h].remaining - 1)]
              /\ now' = now
         ELSE /\ op' = [op EXCEPT ![h] =
                   Operation("save", kind, u, <<>>, action, reason,
                             reviewed(CHOOSE d \in found : TRUE, action, reason, now),
                             op[h].remaining - 1)]
              /\ now' = now + 1
  /\ UNCHANGED <<shared, deliveries, pc, messageData, user, message, obs, learner,
                 request, emitted, verification, limits>>

\* socket.on('review_word')
reviewWord(h, O) == startReview(h, "review_word", O)

\* socket.on('review_word'): the save, then the word_reviewed event
reviewWordSave(h) ==
  /\ op[h].stage = "save"
  /\ op[h].kind = "review_word"
  /\ newWords' = saveDecision(newWords, op[h].newWord)
  /\ emitted' = emitted \cup
       {Event(op[h].userId, "word_reviewed",
              [wordId |-> op[h].newWord._id, status |-> op[h].newWord.status])}
  /\ op' = [op EXCEPT ![h] = Idle(op[h].remaining)]
  /\ UNCHANGED <<users, messages, outbox, deliveries, pc, messageData, user,
                 message, obs, learner, request, verification, now, limits>>

\* router.post('/new-words/:wordId/review')
postReview(h, O) == startReview(h, "review", O)

\* router.post('/new-words/:wordId/review'): the save, then the response
postReviewSave(h) ==
  /\ op[h].stage = "save"
  /\ op[h].kind = "review"
  /\ newWords' = saveDecision(newWords, op[h].newWord)
  /\ op' = [op EXCEPT ![h] = Idle(op[h].remaining)]
  /\ UNCHANGED <<users, messages, outbox, deliveries, pc, messageData, user,
                 message, obs, learner, request, emitted, verification, now, limits>>

-----------------------------------------------------------------------------
(* router.get('/whatsapp')                                                 *)

\* The requests it serves before the model stops asking
MaxChallenges == 2
MaxAuthRequests == 8

\* process.env.WHATSAPP_VERIFY_TOKEN
VerifyToken == "secret"

\* req.query[name]: undefined when the parameter is missing, a string, or an
\* array of strings when the parameter is repeated
NoParam == [kind |-> "undefined", value |-> <<>>]
StringParam(str) == [kind |-> "string", value |-> <<str>>]
ArrayParam(strs) == [kind |-> "array", value |-> strs]

\* res.send(value): a string is the body as it is, undefined gives an empty
\* body, and an array is sent as its JSON text
ResponseBody(type, text) == [type |-> type, text |-> text]
NoResponseBody == ResponseBody("none", <<>>)
send(value) ==
  IF value.kind = "string" THEN ResponseBody("text/html", value.value)
  ELSE IF value.kind = "undefined" THEN NoResponseBody
  ELSE ResponseBody("application/json", <<"[">> \o value.value \o <<"]">>)

\* mode === 'subscribe' && token === process.env.WHATSAPP_VERIFY_TOKEN
subscribesAnyToken(mode, token) == mode = StringParam("subscribe")

subscribes(mode, token) ==
  mode = StringParam("subscribe") /\ token = StringParam(VerifyToken)

Verification(mode, token, challenge, status, body, remaining) ==
  [mode |-> mode, token |-> token, challenge |-> challenge,
   status |-> status, body |-> body, remaining |-> remaining]
NoVerification ==
  Verification(NoParam, NoParam, NoParam, 0, NoResponseBody, MaxChallenges)

VerifyDomains ==
  [modes |-> {NoParam, StringParam("subscribe"), StringParam("unsubscribe")},
   tokens |-> {NoParam, StringParam(VerifyToken), StringParam("guess"),
               ArrayParam(<<VerifyToken>>)},
   challenges |-> {NoParam, StringParam("c1"), StringParam("c2"),
                   ArrayParam(<<"c1", "c2">>)}]

\* router.get('/whatsapp'): the whole handler, which has no await
getWhatsapp(V) ==
  /\ verification.remaining > 0
  /\ \E mode \in V.modes, token \in V.tokens, challenge \in V.challenges :
       verification' =
         IF subscribes(mode, token)
           THEN Verification(mode, token, challenge, 200, send(challenge),
                             verification.remaining - 1)
           ELSE Verification(mode, token, challenge, 403,
                             send(StringParam("Forbidden")),
                             verification.remaining - 1)
  /\ UNCHANGED <<shared, deliveries, pc, messageData, user, message, obs, learner,
                 request, op, emitted, now, limits>>

-----------------------------------------------------------------------------
(* router.delete('/account')                                               *)

\* what a step of the handler leaves alone besides the stores and op
ownerFrame == <<outbox, deliveries, pc, messageData, user, message, obs, learner,
                request, emitted, verification, now, limits>>

\* router.delete('/account'): await User.findById(req.user.userId), 404 if
\* there is no such user
deleteAccount(h) ==
  /\ op[h].stage = "idle"
  /\ op[h].remaining > 0
  /\ \E u \in UserIds :
       op' = [op EXCEPT ![h] =
         IF u \in DOMAIN users
           THEN Operation("messages", "delete_account", u, <<>>, Undefined,
                          Undefined, NoNewWord, op[h].remaining - 1)
           ELSE Idle(op[h].remaining - 1)]
  /\ UNCHANGED <<shared, ownerFrame>>

\* await Message.deleteMany({ userId: user._id }); a rejection ends the
\* handler in its catch with a 500
deleteMessages(h) ==
  /\ op[h].stage = "messages"
  /\ \E writeOk \in BOOLEAN :
       IF writeOk
         THEN /\ messages' = {m \in messages : m.userId # op[h].userId}
              /\ op' = [op EXCEPT ![h].stage = "words"]
         ELSE /\ op' = [op EXCEPT ![h] = Idle(op[h].remaining)]
              /\ UNCHANGED messages
  /\ UNCHANGED <<users, newWords, ownerFrame>>

\* await NewWord.deleteMany({ userId: user._id })
deleteNewWords(h) ==
  /\ op[h].stage = "words"
  /\ \E writeOk \in BOOLEAN :
       IF writeOk
         THEN /\ newWords' = {d \in newWords : d.userId # op[h].userId}
              /\ op' = [op EXCEPT ![h].stage = "user"]
         ELSE /\ op' = [op EXCEPT ![h] = Idle(op[h].remaining)]
              /\ UNCHANGED newWords
  /\ UNCHANGED <<users, messages, ownerFrame>>

\* await User.findByIdAndDelete(user._id), then the response
deleteUser(h) ==
  /\ op[h].stage = "user"
  /\ \E writeOk \in BOOLEAN :
       users' = IF writeOk
         THEN [u \in DOMAIN users \ {op[h].userId} |-> users[u]]
         ELSE users
  /\ op' = [op EXCEPT ![h] = Idle(op[h].remaining)]
  /\ UNCHANGED <<messages, newWords, ownerFrame>>

-----------------------------------------------------------------------------
(* socket.on('moderation_update')                                          *)

\* data.moderation, an object of the client's making: the keys it carries
ModerationPatches ==
  {[status |-> "approved"], [status |-> "pending"], [status |-> "flagged"],
   [reason |-> "custom_word"], [status |-> "blocked", reason |-> "hate_speech"]}

\* { ...message.moderation, ...moderation }
spread(moderation, patch) ==
  [k \in DOMAIN moderation |->
     IF k \in DOMAIN patch THEN patch[k] ELSE moderation[k]]

\* document.save() after message.moderation = ...: validation, then the $set
\* of moderation on the stored document, which has to be there still
updateModeration(msgs, doc) ==
  IF validates(doc) /\ \E m \in msgs : m._id = doc._id
    THEN [ok |-> TRUE,
          msgs |-> {IF m._id = doc._id THEN [m EXCEPT !.moderation = doc.moderation]
                    ELSE m : m \in msgs}]
    ELSE [ok |-> FALSE, msgs |-> msgs]

\* socket.on('moderation_update'): await Message.findOne({_id, userId}), then
\* the assignment to the document in memory
moderationUpdate(h, patches) ==
  /\ op[h].stage = "idle"
  /\ op[h].remaining > 0
  /\ \E u \in DOMAIN users, messageId \in {m._id : m \in messages} \cup {0},
        patch \in patches :
       LET found == {m \in messages : m._id = messageId /\ m.userId = u} IN
       op' = [op EXCEPT ![h] =
         IF found = {}
           THEN Idle(op[h].remaining - 1)
           ELSE LET m == CHOOSE m \in found : TRUE IN
                [Operation("save", "moderation_update", u, <<>>, Undefined,
                           Undefined, NoNewWord, op[h].remaining - 1)
                   EXCEPT !.message =
                     [m EXCEPT !.moderation = spread(m.moderation, patch)]]]
  /\ UNCHANGED <<shared, ownerFrame>>

\* socket.on('moderation_update'): await message.save(), then the
\* moderation_update event to the owner's room
moderationUpdateSave(h) ==
  /\ op[h].stage = "save"
  /\ op[h].kind = "moderation_update"
  /\ LET r == updateModeration(messages, op[h].message) IN
       /\ messages' = r.msgs
       /\ emitted' = IF r.ok
            THEN emitted \cup
                   {Event(op[h].userId, "moderation_update",
                          [messageId |-> op[h].message._id,
                           moderation |-> op[h].message.moderation])}
            ELSE emitted
  /\ op' = [op EXCEPT ![h] = Idle(op[h].remaining)]
  /\ UNCHANGED <<users, newWords, outbox, deliveries, pc, messageData, user,
                 message, obs, learner, request, verification, now, limits>>

-----------------------------------------------------------------------------
(* External calls that never answer                                        *)

\* the timeout option, in milliseconds, of the axios request behind each
\* external call; 0 is axios' default, which is no timeout at all
Timeout ==
  [detectHateSpeech |-> 10000, transcribeAudio |-> 30000,
   moderateImage |-> 15000, moderateVideo |-> 30000,
   downloadMedia |-> 0, sendTextMessage |-> 0]

\* the first external call the invocation awaits from where it is
awaited(p) ==
  IF pc[p] = "classify" /\ branchOf(messageData[p].type) = "text"
    THEN "detectHateSpeech"
  ELSE IF pc[p] = "classify" /\ branchOf(messageData[p].type) \in {"audio", "media"}
    THEN "downloadMedia"
  ELSE IF /\ pc[p] = "handle" /\ message[p].moderation.status = "blocked"
          /\ replies(user[p].moderationSettings)
    THEN "sendTextMessage"
  ELSE "none"

\* the capability called never answers and no timeout ends the request: the
\* promise stays pending and the invocation never resumes
neverResponds(p) ==
  /\ awaited(p) # "none"
  /\ Timeout[awaited(p)] = 0
  /\ pc' = [pc EXCEPT ![p] = "pending"]
  /\ UNCHANGED <<shared, deliveries, messageData, user, message, obs, learner,
                 request, clients, now, limits>>

-----------------------------------------------------------------------------
(* middleware/auth.js: authRateLimit                                       *)

\* the length of the window: 15 * 60 * 1000 milliseconds
WindowMs == 15 * 60 * 1000

\* the number of recent attempts from which a request is refused
MaxAttempts == 5

\* the values of req.ip
ClientIPs == {"ip1", "ip2"}

\* the time that passes before a request, in milliseconds
Elapsed == {0, WindowMs \div 2}

\* app.locals.authAttempts before the first request: new Map()
NoAttempts == [ip \in {} |-> <<>>]

NoAuthRequest == [ip |-> Undefined, time |-> NoDate, status |-> 0]

\* the requests still to come, the times at which next() was called for each
\* client, and the last request with the status of its answer (200: next())
AuthRequests(remaining, passed, last) ==
  [remaining |-> remaining, passed |-> passed, last |-> last]

\* the mutant of recentAttempts whose window is 15 * 60 milliseconds
recentAttemptsOfSeconds(attempts, t) ==
  SelectSeq(attempts, LAMBDA time : t - time < 15 * 60)

\* attempts.filter(time => now - time < 15 * 60 * 1000)
recentAttempts(attempts, t) ==
  SelectSeq(attempts, LAMBDA time : t - time < WindowMs)

\* authAttempts.get(clientIP) || []
attemptsOf(clientIP) ==
  IF clientIP \in DOMAIN authAttempts THEN authAttempts[clientIP] ELSE <<>>

\* authRateLimit(req, res, next), with req.ip = clientIP, elapsed milliseconds
\* after the request before it
authRateLimit(clientIP, elapsed) ==
  LET t == now + elapsed
      recent == recentAttempts(attemptsOf(clientIP), t)
      limited == Len(recent) >= MaxAttempts
      pushed == Append(recent, t)
  IN /\ authRequests.remaining > 0
     /\ now' = t
     /\ authAttempts' =
          IF limited THEN authAttempts
          ELSE [ip \in DOMAIN authAttempts \cup {clientIP} |->
                  IF ip = clientIP THEN pushed ELSE authAttempts[ip]]
     /\ authRequests' =
          AuthRequests(authRequests.remaining - 1,
                       IF limited THEN authRequests.passed
                       ELSE [authRequests.passed EXCEPT
                               ![clientIP] = Append(@, t)],
                       [ip |-> clientIP, time |-> t,
                        status |-> IF limited THEN 429 ELSE 200])
     /\ UNCHANGED <<shared, deliveries, pc, messageData, user, message, obs,
                    learner, request, clients>>

-----------------------------------------------------------------------------
(* Specifications                                                          *)

InitProgram(procs, handlers, settings, toDeliver, toOperate, stored) ==
  /\ users \in [UserIds -> {UserDoc(u, s) : u \in UserIds, s \in settings}]
  /\ \A u \in UserIds : users[u]._id = u
  /\ messages = stored
  /\ newWords = {}
  /\ outbox = {}
  /\ deliveries = toDeliver
  /\ pc = [p \in procs |-> "idle"]
  /\ messageData = [p \in procs |-> NoMessageData]
  /\ user = [p \in procs |-> NoUser]
  /\ message = [p \in procs |-> NoMessage]
  /\ obs = [p \in procs |-> NoObs]
  /\ learner = [p \in procs |-> NotLearning]
  /\ request = [p \in procs |-> NoRequest]
  /\ op = [h \in handlers |-> Idle(toOperate)]
  /\ emitted = {}
  /\ verification = NoVerification
  /\ now = 1

\* no invocation, no owner operation, an empty store
InitStores == InitProgram({}, {}, {DefaultSettings}, 0, 0, {})

InitOf(procs, handlers, settings, toDeliver, toOperate, stored) ==
  /\ InitProgram(procs, handlers, settings, toDeliver, toOperate, stored)
  /\ authAttempts = NoAttempts
  /\ authRequests = AuthRequests(0, [ip \in ClientIPs |-> <<>>], NoAuthRequest)

InitWith(procs, settings, toDeliver) ==
  InitOf(procs, {}, settings, toDeliver, 0, {})

\* One message, delivered once: every configuration, every adapter outcome
MainDomains ==
  Domains(MessageDatas({"m1"}, Texts), HateResponses, Transcripts, SafeSearches)

Init == InitWith({1}, AllSettings, 1)

Next ==
  \/ \E p \in DOMAIN pc : receiveMessage(p, MainDomains)
  \/ \E p \in DOMAIN pc : dropMessage(p)
  \/ \E p \in DOMAIN pc : findUser(p)
  \/ \E p \in DOMAIN pc : classifyText(p, MainDomains)
  \/ \E p \in DOMAIN pc : classifyAudio(p, MainDomains)
  \/ \E p \in DOMAIN pc : classifyMedia(p, MainDomains)
  \/ \E p \in DOMAIN pc : classifyOther(p)
  \/ \E p \in DOMAIN pc : findBlockedMessages(p)
  \/ \E p \in DOMAIN pc : saveMessage(p)
  \/ \E p \in DOMAIN pc : handleBlockedMessage(p)
  \/ \E p \in DOMAIN pc : saveResponse(p)
  \/ \E p \in DOMAIN pc : handleApprovedMessage(p)

Spec == Init /\ [][Next]_vars

\* Two invocations in flight, two message ids, MaxDeliveries deliveries: the
\* same id twice, in sequence or overlapping, or two different messages
MaxDeliveries == 2

ConcMessageDatas ==
  {MessageData(id, NumberOf("u1"), "text", Present(<<"a">>)) : id \in {"m1", "m2"}}
  \cup {MessageData(id, NumberOf("u1"), type, Absent) :
          id \in {"m1", "m2"}, type \in {"audio", "image", "document"}}
  \cup {MessageData(id, UnknownNumber, "text", Present(<<"a">>)) : id \in {"m1", "m2"}}

ConcDomains ==
  Domains(ConcMessageDatas,
          {HateFailure,
           HateResponse(TRUE, <<[label |-> "toxic", score |-> 80],
                                [label |-> "obscene", score |-> 10]>>)},
          {TranscriptFailure, Transcript(TRUE, <<"a">>)},
          {SafeSearch(TRUE, "VERY_LIKELY", "POSSIBLE", "POSSIBLE"),
           SafeSearch(TRUE, "POSSIBLE", "POSSIBLE", "POSSIBLE")})

InitConc ==
  InitWith({1, 2}, {DefaultSettings}, MaxDeliveries)

NextConc ==
  \/ \E p \in DOMAIN pc : receiveMessage(p, ConcDomains)
  \/ \E p \in DOMAIN pc : dropMessage(p)
  \/ \E p \in DOMAIN pc : findUser(p)
  \/ \E p \in DOMAIN pc : classifyText(p, ConcDomains)
  \/ \E p \in DOMAIN pc : classifyAudio(p, ConcDomains)
  \/ \E p \in DOMAIN pc : classifyMedia(p, ConcDomains)
  \/ \E p \in DOMAIN pc : classifyOther(p)
  \/ \E p \in DOMAIN pc : saveMessage(p)
  \/ \E p \in DOMAIN pc : handleBlockedMessage(p)
  \/ \E p \in DOMAIN pc : saveResponse(p)
  \/ \E p \in DOMAIN pc : handleApprovedMessage(p)

SpecConc == InitConc /\ [][NextConc]_vars

\* The webhook endpoint: MaxRequests requests, one after the other, each with a
\* body of up to MaxBatch entries and any signature header
MaxRequests == 2
MaxBatch == 2

TextMessage == ProviderMessage("m1", "text", Present(<<"a">>))
AudioMessage == ProviderMessage("m2", "audio", Absent)
ImageMessage == ProviderMessage("m3", "image", Absent)
DocumentMessage == ProviderMessage("m4", "document", Absent)

Entries ==
  {Entry(FALSE, <<>>),
   Entry(TRUE, <<TextMessage, AudioMessage>>),
   Entry(TRUE, <<ImageMessage, DocumentMessage>>)}

\* the object is looked at before the entries are
Bodies ==
  {Body("page", <<>>)}
  \cup {Body("whatsapp_business_account", entry) :
          entry \in UNION {[1..k -> Entries] : k \in 0..MaxBatch}}

Payloads == {Payload(body, form) : body \in Bodies, form \in {"compact", "spaced"}}

HttpDomains ==
  Domains({},
          {HateFailure,
           HateResponse(TRUE, <<[label |-> "toxic", score |-> 80],
                                [label |-> "obscene", score |-> 10]>>)},
          {TranscriptFailure, Transcript(TRUE, <<"a">>)},
          {SafeSearch(TRUE, "VERY_LIKELY", "POSSIBLE", "POSSIBLE"),
           SafeSearch(TRUE, "POSSIBLE", "POSSIBLE", "POSSIBLE")})

InitHttp == InitWith({1}, {DefaultSettings}, MaxRequests)

NextHttp ==
  \/ \E p \in DOMAIN pc : postWhatsapp(p, Payloads)
  \/ \E p \in DOMAIN pc : dropMessage(p)
  \/ \E p \in DOMAIN pc : findUser(p)
  \/ \E p \in DOMAIN pc : classifyText(p, HttpDomains)
  \/ \E p \in DOMAIN pc : classifyAudio(p, HttpDomains)
  \/ \E p \in DOMAIN pc : classifyMedia(p, HttpDomains)
  \/ \E p \in DOMAIN pc : classifyOther(p)
  \/ \E p \in DOMAIN pc : saveMessage(p)

SpecHttp == InitHttp /\ [][NextHttp]_vars

\* The learner and the owner's observations: two invocations in flight and one
\* handler of new_word_detected events, over a store that already holds as
\* many blocked messages of the owner as the learner asks for.  Every message
\* delivered has its own id and the same text.
MaxOperations == 1

TrackedText == <<"a", "B", "a">>

StoredBlocked(oid, id) ==
  [NewMessage(oid, "u1", MessageData(id, NumberOf("u1"), "text", Present(TrackedText)))
     EXCEPT !.moderation =
       Moderation("blocked", "hate_speech", HateSpeech(TRUE, TRUE, 80, "toxic"),
                  NoContentModeration)]

Stored(count) == {StoredBlocked(n, <<"s", ToString(n)>>) : n \in 1..count}

LearnDomains ==
  Domains({MessageData(<<"m", ToString(deliveries)>>, NumberOf("u1"), "text",
                       Present(TrackedText))},
          {HateResponse(TRUE, <<[label |-> "toxic", score |-> 80],
                                [label |-> "obscene", score |-> 10]>>),
           HateResponse(TRUE, <<[label |-> "toxic", score |-> 10],
                                [label |-> "obscene", score |-> 10]>>)},
          {TranscriptFailure},
          {SafeSearchFailure})

LearnOwnerDomains ==
  OwnerDomains({TrackedText, <<"a", "b", "a", " ">>}, {}, {})

InitLearn ==
  InitOf({1, 2}, {1}, {DefaultSettings}, MaxDeliveries, MaxOperations,
         Stored(MinBlockedOccurrences))

NextLearn ==
  \/ \E p \in DOMAIN pc : receiveMessage(p, LearnDomains)
  \/ \E p \in DOMAIN pc : findUser(p)
  \/ \E p \in DOMAIN pc : classifyText(p, LearnDomains)
  \/ \E p \in DOMAIN pc : findBlockedMessages(p)
  \/ \E p \in DOMAIN pc : findNewWord(p)
  \/ \E p \in DOMAIN pc : saveNewWord(p)
  \/ \E p \in DOMAIN pc : saveMessage(p)
  \/ \E p \in DOMAIN pc : handleBlockedMessage(p)
  \/ \E p \in DOMAIN pc : saveResponse(p)
  \/ \E p \in DOMAIN pc : handleApprovedMessage(p)
  \/ \E h \in DOMAIN op : newWordDetected(h, LearnOwnerDomains)
  \/ \E h \in DOMAIN op : newWordDetectedSave(h)

SpecLearn == InitLearn /\ [][NextLearn]_vars

\* The owner's reviews: one invocation at a time and one handler of reviews,
\* over a store that holds one blocked message fewer than the learner asks for
MaxArrivals == 3
MaxReviews == 2

ReviewDomains == OwnerDomains({}, {"approve", "reject", "ignore"}, {"r"})

InitReview ==
  InitOf({1}, {1}, {DefaultSettings}, MaxArrivals, MaxReviews,
         Stored(MinBlockedOccurrences - 1))

NextReview ==
  \/ \E p \in DOMAIN pc : receiveMessage(p, LearnDomains)
  \/ \E p \in DOMAIN pc : findUser(p)
  \/ \E p \in DOMAIN pc : classifyText(p, LearnDomains)
  \/ \E p \in DOMAIN pc : findBlockedMessages(p)
  \/ \E p \in DOMAIN pc : findNewWord(p)
  \/ \E p \in DOMAIN pc : saveNewWord(p)
  \/ \E p \in DOMAIN pc : saveMessage(p)
  \/ \E p \in DOMAIN pc : handleBlockedMessage(p)
  \/ \E p \in DOMAIN pc : saveResponse(p)
  \/ \E p \in DOMAIN pc : handleApprovedMessage(p)
  \/ \E h \in DOMAIN op : reviewWord(h, ReviewDomains)
  \/ \E h \in DOMAIN op : reviewWordSave(h)
  \/ \E h \in DOMAIN op : postReview(h, ReviewDomains)
  \/ \E h \in DOMAIN op : postReviewSave(h)

SpecReview == InitReview /\ [][NextReview]_vars

\* The arrivals of SpecReview over the same store, without the reviews
InitHistory ==
  InitOf({1}, {}, {DefaultSettings}, MaxArrivals, 0,
         Stored(MinBlockedOccurrences - 1))

NextHistory ==
  \/ \E p \in DOMAIN pc : receiveMessage(p, LearnDomains)
  \/ \E p \in DOMAIN pc : findUser(p)
  \/ \E p \in DOMAIN pc : classifyText(p, LearnDomains)
  \/ \E p \in DOMAIN pc : findBlockedMessages(p)
  \/ \E p \in DOMAIN pc : findNewWord(p)
  \/ \E p \in DOMAIN pc : saveNewWord(p)
  \/ \E p \in DOMAIN pc : saveMessage(p)
  \/ \E p \in DOMAIN pc : handleBlockedMessage(p)
  \/ \E p \in DOMAIN pc : saveResponse(p)
  \/ \E p \in DOMAIN pc : handleApprovedMessage(p)

SpecHistory == InitHistory /\ [][NextHistory]_vars

\* The verification requests, while one invocation handles one message over
\* the store of the learner
InitVerify ==
  InitOf({1}, {}, {DefaultSettings}, 1, 0, Stored(MinBlockedOccurrences))

NextVerify ==
  \/ getWhatsapp(VerifyDomains)
  \/ \E p \in DOMAIN pc : receiveMessage(p, LearnDomains)
  \/ \E p \in DOMAIN pc : findUser(p)
  \/ \E p \in DOMAIN pc : classifyText(p, LearnDomains)
  \/ \E p \in DOMAIN pc : findBlockedMessages(p)
  \/ \E p \in DOMAIN pc : findNewWord(p)
  \/ \E p \in DOMAIN pc : saveNewWord(p)
  \/ \E p \in DOMAIN pc : saveMessage(p)
  \/ \E p \in DOMAIN pc : handleBlockedMessage(p)
  \/ \E p \in DOMAIN pc : saveResponse(p)
  \/ \E p \in DOMAIN pc : handleApprovedMessage(p)

SpecVerify == InitVerify /\ [][NextVerify]_vars

\* The deletion of the account, while one invocation handles the messages
\* addressed to the owner over the store of the learner
InitAccount ==
  InitOf({1}, {1}, {DefaultSettings}, MaxDeliveries, MaxOperations,
         Stored(MinBlockedOccurrences))

NextAccount ==
  \/ \E p \in DOMAIN pc : receiveMessage(p, LearnDomains)
  \/ \E p \in DOMAIN pc : dropMessage(p)
  \/ \E p \in DOMAIN pc : findUser(p)
  \/ \E p \in DOMAIN pc : classifyText(p, LearnDomains)
  \/ \E p \in DOMAIN pc : findBlockedMessages(p)
  \/ \E p \in DOMAIN pc : findNewWord(p)
  \/ \E p \in DOMAIN pc : saveNewWord(p)
  \/ \E p \in DOMAIN pc : saveMessage(p)
  \/ \E p \in DOMAIN pc : handleBlockedMessage(p)
  \/ \E p \in DOMAIN pc : saveResponse(p)
  \/ \E p \in DOMAIN pc : handleApprovedMessage(p)
  \/ \E h \in DOMAIN op : deleteAccount(h)
  \/ \E h \in DOMAIN op : deleteMessages(h)
  \/ \E h \in DOMAIN op : deleteNewWords(h)
  \/ \E h \in DOMAIN op : deleteUser(h)

SpecAccount == InitAccount /\ [][NextAccount]_vars

\* The owner's moderation updates, while one invocation handles a message
\* over a store that holds one blocked message fewer than the learner asks for
InitModeration ==
  InitOf({1}, {1}, {DefaultSettings}, MaxDeliveries, MaxReviews,
         Stored(MinBlockedOccurrences - 1))

NextModeration ==
  \/ \E p \in DOMAIN pc : receiveMessage(p, LearnDomains)
  \/ \E p \in DOMAIN pc : findUser(p)
  \/ \E p \in DOMAIN pc : classifyText(p, LearnDomains)
  \/ \E p \in DOMAIN pc : findBlockedMessages(p)
  \/ \E p \in DOMAIN pc : findNewWord(p)
  \/ \E p \in DOMAIN pc : saveNewWord(p)
  \/ \E p \in DOMAIN pc : saveMessage(p)
  \/ \E p \in DOMAIN pc : handleBlockedMessage(p)
  \/ \E p \in DOMAIN pc : saveResponse(p)
  \/ \E p \in DOMAIN pc : handleApprovedMessage(p)
  \/ \E h \in DOMAIN op : moderationUpdate(h, ModerationPatches)
  \/ \E h \in DOMAIN op : moderationUpdateSave(h)

SpecModeration == InitModeration /\ [][NextModeration]_vars

\* The observations of the pipeline and of the owner's client side by side:
\* one invocation and one handler of new_word_detected events, which is sent
\* the tracked text or a shorter word, over the store of the learner
ObserveDomains == OwnerDomains({TrackedText, <<"a", "B">>}, {}, {})

InitObserve ==
  InitOf({1}, {1}, {DefaultSettings}, MaxDeliveries, MaxOperations,
         Stored(MinBlockedOccurrences))

NextObserve ==
  \/ \E p \in DOMAIN pc : receiveMessage(p, LearnDomains)
  \/ \E p \in DOMAIN pc : findUser(p)
  \/ \E p \in DOMAIN pc : classifyText(p, LearnDomains)
  \/ \E p \in DOMAIN pc : findBlockedMessages(p)
  \/ \E p \in DOMAIN pc : findNewWord(p)
  \/ \E p \in DOMAIN pc : saveNewWord(p)
  \/ \E p \in DOMAIN pc : saveMessage(p)
  \/ \E p \in DOMAIN pc : handleBlockedMessage(p)
  \/ \E p \in DOMAIN pc : saveResponse(p)
  \/ \E p \in DOMAIN pc : handleApprovedMessage(p)
  \/ \E h \in DOMAIN op : newWordDetected(h, ObserveDomains)
  \/ \E h \in DOMAIN op : newWordDetectedSave(h)

SpecObserve == InitObserve /\ [][NextObserve]_vars

\* One message of each branch, handled to its end under weak fairness of the
\* steps: a call that answers, fails or times out resumes the invocation
LiveDomains ==
  Domains({MessageData("m1", to, "text", Present(<<"a">>)) :
             to \in {NumberOf("u1"), UnknownNumber}}
          \cup {MessageData("m1", NumberOf("u1"), type, Absent) :
                  type \in {"audio", "image", "video", "document"}},
          {HateFailure,
           HateResponse(TRUE, <<[label |-> "toxic", score |-> 80],
                                [label |-> "obscene", score |-> 10]>>),
           HateResponse(TRUE, <<[label |-> "toxic", score |-> 10],
                                [label |-> "obscene", score |-> 10]>>)},
          {TranscriptFailure, Transcript(TRUE, <<"a">>)},
          {SafeSearchFailure,
           SafeSearch(TRUE, "VERY_LIKELY", "POSSIBLE", "POSSIBLE"),
           SafeSearch(TRUE, "POSSIBLE", "POSSIBLE", "POSSIBLE")})

InitLive ==
  InitOf({1}, {}, {DefaultSettings, ModerationSettings(TRUE, TRUE, TRUE, FALSE, {}, {})},
         1, 0, {})

NextAnswered ==
  \/ \E p \in DOMAIN pc : receiveMessage(p, LiveDomains)
  \/ \E p \in DOMAIN pc : dropMessage(p)
  \/ \E p \in DOMAIN pc : findUser(p)
  \/ \E p \in DOMAIN pc : classifyText(p, LiveDomains)
  \/ \E p \in DOMAIN pc : classifyAudio(p, LiveDomains)
  \/ \E p \in DOMAIN pc : classifyMedia(p, LiveDomains)
  \/ \E p \in DOMAIN pc : classifyOther(p)
  \/ \E p \in DOMAIN pc : saveMessage(p)
  \/ \E p \in DOMAIN pc : handleBlockedMessage(p)
  \/ \E p \in DOMAIN pc : saveResponse(p)
  \/ \E p \in DOMAIN pc : handleApprovedMessage(p)

NextLive ==
  \/ \E p \in DOMAIN pc : receiveMessage(p, LiveDomains)
  \/ \E p \in DOMAIN pc : dropMessage(p)
  \/ \E p \in DOMAIN pc : findUser(p)
  \/ \E p \in DOMAIN pc : classifyText(p, LiveDomains)
  \/ \E p \in DOMAIN pc : classifyAudio(p, LiveDomains)
  \/ \E p \in DOMAIN pc : classifyMedia(p, LiveDomains)
  \/ \E p \in DOMAIN pc : classifyOther(p)
  \/ \E p \in DOMAIN pc : saveMessage(p)
  \/ \E p \in DOMAIN pc : handleBlockedMessage(p)
  \/ \E p \in DOMAIN pc : saveResponse(p)
  \/ \E p \in DOMAIN pc : handleApprovedMessage(p)
  \/ \E p \in DOMAIN pc : neverResponds(p)

\* every call answers, fails or times out
SpecAnswered == InitLive /\ [][NextAnswered]_vars /\ WF_vars(NextAnswered)

\* a call without a timeout may also never answer
SpecLive == InitLive /\ [][NextLive]_vars /\ WF_vars(NextLive)

\* Messages of every kind over the store of the learner, one invocation at
\* a time; the provider may deliver the same message id again
KindsDomains ==
  Domains({MessageData("m1", NumberOf("u1"), "text", Present(TrackedText))}
          \cup {MessageData("m1", NumberOf("u1"), type, Absent) :
                  type \in {"audio", "image", "document"}},
          {HateFailure,
           HateResponse(TRUE, <<[label |-> "toxic", score |-> 80],
                                [label |-> "obscene", score |-> 10]>>),
           HateResponse(TRUE, <<[label |-> "toxic", score |-> 10],
                                [label |-> "obscene", score |-> 10]>>)},
          {TranscriptFailure, Transcript(TRUE, TrackedText)},
          {SafeSearch(TRUE, "VERY_LIKELY", "POSSIBLE", "POSSIBLE"),
           SafeSearch(TRUE, "POSSIBLE", "POSSIBLE", "POSSIBLE")})

InitKinds ==
  InitOf({1}, {}, {DefaultSettings}, MaxDeliveries, 0, Stored(MinBlockedOccurrences))

NextKinds ==
  \/ \E p \in DOMAIN pc : receiveMessage(p, KindsDomains)
  \/ \E p \in DOMAIN pc : findUser(p)
  \/ \E p \in DOMAIN pc : classifyText(p, KindsDomains)
  \/ \E p \in DOMAIN pc : classifyAudio(p, KindsDomains)
  \/ \E p \in DOMAIN pc : classifyMedia(p, KindsDomains)
  \/ \E p \in DOMAIN pc : classifyOther(p)
  \/ \E p \in DOMAIN pc : findBlockedMessages(p)
  \/ \E p \in DOMAIN pc : findNewWord(p)
  \/ \E p \in DOMAIN pc : saveNewWord(p)
  \/ \E p \in DOMAIN pc : saveMessage(p)
  \/ \E p \in DOMAIN pc : handleBlockedMessage(p)
  \/ \E p \in DOMAIN pc : saveResponse(p)
  \/ \E p \in DOMAIN pc : handleApprovedMessage(p)

SpecKinds == InitKinds /\ [][NextKinds]_vars

\* Requests of two clients through authRateLimit, at most half a window apart
InitLimit ==
  /\ InitStores
  /\ authAttempts = NoAttempts
  /\ authRequests =
       AuthRequests(MaxAuthRequests, [ip \in ClientIPs |-> <<>>], NoAuthRequest)

NextLimit ==
  \E clientIP \in ClientIPs, elapsed \in Elapsed : authRateLimit(clientIP, elapsed)

SpecLimit == InitLimit /\ [][NextLimit]_vars

-----------------------------------------------------------------------------
(* Properties                                                              *)

BlockThreshold == 70
MediaBlockThreshold == 80

\* the invocation has its verdict: message.moderation is assigned
Judged(p) == pc[p] \in {"save", "handle"}

verdict(p) == message[p].moderation
settingsOf(p) == user[p].moderationSettings
bodyOf(p) == messageData[p].text.value

\* text contains one of the words, case-insensitively, as a substring
ContainsAny(text, words) ==
  \E w \in words, i \in 1..(Len(text) + 1), j \in 0..Len(text) :
    /\ j - i + 1 = Len(w)
    /\ \A k \in 1..Len(w) : toLowerCaseChar(text[i + k - 1]) = toLowerCaseChar(w[k])

JudgedText(p) ==
  Judged(p) /\ messageData[p].type = "text" /\ bodyOf(p) # <<>>

\* C1: a text message whose text contains an allowed word is approved, whatever
\* the classifier returns and even when the text also contains a blocked word.
C1_AllowedWordApproves ==
  \A p \in DOMAIN pc :
    JudgedText(p) /\ ContainsAny(bodyOf(p), settingsOf(p).customAllowedWords)
      => verdict(p).status = "approved"

\* a text message whose text contains a blocked word and no allowed word
BlockedWordOnly(p) ==
  /\ JudgedText(p)
  /\ ContainsAny(bodyOf(p), settingsOf(p).customBlockedWords)
  /\ ~ContainsAny(bodyOf(p), settingsOf(p).customAllowedWords)

C3_HateSpeechBlocks ==
  \A p \in DOMAIN pc :
    /\ JudgedText(p)
    /\ ~ContainsAny(bodyOf(p), settingsOf(p).customBlockedWords)
    /\ ~ContainsAny(bodyOf(p), settingsOf(p).customAllowedWords)
    /\ settingsOf(p).hateSpeechEnabled
    /\ obs[p].resp.ok
    /\ hateSpeechConfidence(obs[p].resp) > BlockThreshold
    => /\ verdict(p).status = "blocked"
       /\ verdict(p).reason = "hate_speech"

C3_Witness ==
  \E p \in DOMAIN pc :
    /\ JudgedText(p)
    /\ settingsOf(p).hateSpeechEnabled
    /\ "detectHateSpeech" \in obs[p].calls
    /\ obs[p].resp.ok
    /\ hateSpeechConfidence(obs[p].resp) > BlockThreshold
    /\ verdict(p).reason = "hate_speech"

JudgedMedia(p) ==
  Judged(p) /\ messageData[p].type \in {"image", "video"}

\* C4: an image or video whose classification succeeds with no nudity, violence
\* or explicit confidence above 0.8 is approved, for every setting of the toggles.
C4_BelowThresholdApproved ==
  \A p \in DOMAIN pc :
    /\ JudgedMedia(p)
    /\ verdict(p).contentModeration.set
    /\ LET m == verdict(p).contentModeration.moderation IN
         /\ m.nudity.confidence <= MediaBlockThreshold
         /\ m.violence.confidence <= MediaBlockThreshold
         /\ m.explicit.confidence <= MediaBlockThreshold
    => verdict(p).status = "approved"

\* the categories that qualify for blocking, as the pipeline tests them
Qualifying(p) ==
  LET m == verdict(p).contentModeration.moderation IN
    (IF m.nudity.detected /\ settingsOf(p).nudityEnabled THEN {"nudity"} ELSE {})
    \cup (IF m.violence.detected /\ settingsOf(p).violenceEnabled
            THEN {"violence"} ELSE {})
    \cup (IF m.explicit.detected THEN {"explicit_content"} ELSE {})

FirstOf(reasons) ==
  IF "nudity" \in reasons THEN "nudity"
  ELSE IF "violence" \in reasons THEN "violence"
  ELSE "explicit_content"

\* C5: when several media categories qualify for blocking, the reason of the
\* blocked verdict is the first qualifying one in the order nudity, violence,
\* explicit.
C5_FirstCategoryWins ==
  \A p \in DOMAIN pc :
    JudgedMedia(p) /\ verdict(p).status = "blocked" /\ Qualifying(p) # {}
      => verdict(p).reason = FirstOf(Qualifying(p))

\* C6: an audio message whose transcription fails gets verdict status error,
\* never approved and never blocked, for every owner configuration.
C6_FailedTranscriptionIsError ==
  \A p \in DOMAIN pc :
    Judged(p) /\ messageData[p].type = "audio" /\ "transcribeAudio" \in obs[p].failed
      => verdict(p).status = "error"

C6_Witness ==
  \E p \in DOMAIN pc :
    /\ Judged(p) /\ messageData[p].type = "audio"
    /\ "transcribeAudio" \in obs[p].failed
    /\ settingsOf(p).customBlockedWords # {}
    /\ verdict(p).status = "error"

\* C7: an audio message whose transcription succeeds with text T gets the
\* verdict (status and reason) that a text message with body T gets under the
\* same configuration and classifier answer.
C7_AudioJudgedAsText ==
  \A p \in DOMAIN pc :
    Judged(p) /\ messageData[p].type = "audio" /\ obs[p].transcript.ok
      => \E resp \in (IF "detectHateSpeech" \in obs[p].calls
                        THEN {obs[p].resp} ELSE HateResponses) :
           LET asText == processTextMessage(obs[p].transcript.text,
                                            settingsOf(p), resp)
           IN /\ ~asText.threw
              /\ asText.status = verdict(p).status
              /\ asText.reason = verdict(p).reason

\* C8: for every message kind, when an adapter call made during classification
\* fails, the verdict to be persisted has status error.
C8_AdapterFailureIsError ==
  \A p \in DOMAIN pc :
    Judged(p) /\ obs[p].failed # {} => verdict(p).status = "error"

\* C9: a document message with a resolvable owner is approved and no adapter
\* is called for it, whatever the configuration.
C9_DocumentApproved ==
  /\ \A p \in DOMAIN pc :
       Judged(p) /\ messageData[p].type = "document"
         => verdict(p).status = "approved" /\ obs[p].calls = {}
  /\ \A m \in messages :
       m.messageType = "document" => m.moderation.status = "approved"

C9_Witness ==
  \E p \in DOMAIN pc :
    /\ pc[p] = "handle" /\ messageData[p].type = "document"
    /\ ~settingsOf(p).nudityEnabled
    /\ \E m \in messages : m._id = message[p]._id /\ m.moderation.status = "approved"

AtMostOnePerId ==
  \A m1 \in messages, m2 \in messages :
    m1.whatsappMessageId = m2.whatsappMessageId => m1 = m2

VerdictKept ==
  \A m \in messages :
    \E n \in messages' :
      /\ n._id = m._id
      /\ n.whatsappMessageId = m.whatsappMessageId
      /\ n.moderation = m.moderation

\* C10: after any sequence of deliveries, re-deliveries included, sequential or
\* concurrent, the store holds at most one message per provider message id and
\* that message keeps the verdict of the first successful persist.
C10_RedeliveryIdempotent == [][AtMostOnePerId' /\ VerdictKept]_vars

\* a second delivery of a stored id is in flight, with another verdict
C10_Witness ==
  \E p \in DOMAIN pc, q \in DOMAIN pc, m \in messages :
    /\ p # q
    /\ pc[p] = "handle" /\ m._id = message[p]._id
    /\ pc[q] = "save"
    /\ message[q].whatsappMessageId = m.whatsappMessageId
    /\ message[q].moderation.status # m.moderation.status

\* the lookup of the invocation is pending and the destination of its message
\* is an address that no user has
UnknownDestination(p) ==
  /\ pc[p] = "find"
  /\ messageData[p].to # Undefined
  /\ \A u \in DOMAIN users : users[u].whatsappNumber # messageData[p].to

\* C11: a message whose destination address matches no user is dropped before
\* classification: the invocation ends, no Message is stored, no adapter is
\* called, no reply is sent and no tracked word changes.
C11_UnknownDestinationDropped ==
  [][\A p \in DOMAIN pc :
       UnknownDestination(p) /\ pc'[p] # pc[p]
         => /\ pc'[p] = "idle"
            /\ messages' = messages
            /\ newWords' = newWords
            /\ outbox' = outbox
            /\ obs'[p].calls = {}]_vars

C11_Witness ==
  \E p \in DOMAIN pc :
    UnknownDestination(p) /\ messageData[p].type = "text" /\ messages = {}

\* a reply is sent, or a send is attempted, in this step
ReplyAttempted ==
  \/ outbox' # outbox
  \/ \E p \in DOMAIN pc :
       "sendTextMessage" \in obs'[p].calls /\ "sendTextMessage" \notin obs[p].calls

\* C14: an automated reply is sent only for a message whose verdict is blocked
\* and whose owner has the auto-reply setting on; approved and error verdicts,
\* and blocked ones with the setting off, trigger none.
C14_ReplyOnlyWhenBlockedAndEnabled ==
  [][/\ ReplyAttempted
        => \E p \in DOMAIN pc :
             /\ pc[p] = "handle"
             /\ verdict(p).status = "blocked"
             /\ settingsOf(p).autoBlock
             /\ \A e \in outbox' \ outbox : e.to = message[p].from
     /\ \A m \in messages' :
          m.response.sent => m.moderation.status = "blocked"]_vars

C14_Witness ==
  \E p \in DOMAIN pc :
    /\ pc[p] = "reply"
    /\ verdict(p).status = "blocked"
    /\ settingsOf(p).autoBlock
    /\ "sendTextMessage" \notin obs[p].failed
    /\ outbox # {}

\* C15: when the send of the automated reply fails, the message stays stored
\* with verdict blocked and the same reason, and the failed send outcome is
\* attached to the message record.
C15_FailedSendAttached ==
  [][\A p \in DOMAIN pc :
       pc[p] = "reply" /\ "sendTextMessage" \in obs[p].failed /\ pc'[p] # "reply"
         => \E m \in messages' :
              /\ m._id = message[p]._id
              /\ m.moderation.status = "blocked"
              /\ m.moderation.reason = message[p].moderation.reason
              /\ m.response # Response(FALSE)]_vars

\* C16: an inbound message whose verdict is approved is persisted and then a
\* real-time notification for it is emitted to the owner's connected clients.
C16_ApprovedIsNotified ==
  \A m \in messages :
    m.moderation.status = "approved" /\ m.status = "delivered"
      => \E e \in emitted :
           e.userId = m.userId /\ e.name = "new_message" /\ e.subject = m._id

\* the header of the request is "sha256=" and the HMAC-SHA256 of the bytes sent
Signed(q) ==
  q.signature = SignatureHeader(TRUE, "sha256=", createHmac(AccessToken, q.payload))

\* C12: a POST whose signature header is missing or is not the HMAC-SHA256 of
\* the payload is answered 401, and no message of the payload is normalized,
\* classified or stored: nothing is processed before the signature is verified.
C12_UnsignedRejected ==
  [][\A p \in DOMAIN pc :
       /\ request'[p] # request[p] /\ ~Signed(request'[p])
            => /\ request'[p].stage = "responded"
               /\ request'[p].status = 401
               /\ request'[p].queue = <<>>
               /\ pc'[p] = "idle"
               /\ messageData'[p] = NoMessageData
               /\ messages' = messages
               /\ newWords' = newWords
               /\ outbox' = outbox
       /\ pc'[p] # "idle" => Signed(request'[p])]_vars

C12_Witness ==
  \E p \in DOMAIN pc :
    /\ request[p].stage = "responded"
    /\ request[p].status = 401
    /\ request[p].signature.defined
    /\ request[p].body.object = "whatsapp_business_account"
    /\ \E i \in 1..Len(request[p].body.entry) :
         request[p].body.entry[i].messages # <<>>

\* C13: when persisting the verdict of a message fails, the request that
\* delivered the message is not answered 200.
C13_FailedPersistNotAcknowledged ==
  \A p \in DOMAIN pc :
    request[p].stage = "responded" /\ request[p].persistFailed
      => request[p].status # 200

\* C17: whatever the interleaving of the invocations of the pipeline and of the
\* new_word_detected events, the store never holds two tracked words with the
\* same owner and the same normalized word.
C17_OneTermPerOwnerAndWord ==
  \A d1 \in newWords, d2 \in newWords :
    d1.userId = d2.userId /\ normalizeWord(d1.word) = normalizeWord(d2.word)
      => d1 = d2

\* an invocation found no tracked word and is about to insert one, and in the
\* meantime somebody else has inserted it
C17_Witness ==
  \E p \in DOMAIN pc :
    /\ pc[p] = "track"
    /\ learner[p].newWord = NoNewWord
    /\ \E d \in newWords :
         d.userId = user[p]._id /\ d.word = cleanWordOf(Head(learner[p].words))

\* the owner's stored blocked messages whose text contains the word
BlockedContaining(userId, word) ==
  {m \in messages : /\ m.userId = userId
                    /\ m.moderation.status = "blocked"
                    /\ ContainsAny(m.content.text, {word})}

\* C18: when the learner, processing an approved text, finds no tracked word
\* for a token that occurs in at least 3 of the owner's blocked messages, it
\* creates one tracked word for (owner, token); every tracked word the
\* pipeline creates is pending and its frequency is the number of the owner's
\* blocked messages that contain the word, which is at least 3.
C18_CreatedWithHistoricalCount ==
  [][\A p \in DOMAIN pc :
       pc[p] = "track" /\ learner[p].newWord = NoNewWord /\ pc'[p] # "track"
         => \E d \in newWords' :
              /\ newWords' = newWords \cup {d}
              /\ \A e \in newWords : e._id # d._id
              /\ d.userId = user[p]._id
              /\ d.word = cleanWordOf(Head(learner[p].words))
              /\ d.status = "pending"
              /\ d.frequency = Cardinality(BlockedContaining(d.userId, d.word))
              /\ d.frequency >= 3]_vars

C18_Witness ==
  \E p \in DOMAIN pc :
    /\ pc[p] = "save"
    /\ verdict(p).status = "approved"
    /\ \E d \in newWords :
         /\ d.userId = user[p]._id
         /\ ContainsAny(bodyOf(p), {d.word})
         /\ d.status = "pending"
         /\ d.frequency = Cardinality(BlockedContaining(d.userId, d.word))

\* C19: a tracked word that has a decision keeps its status and its recorded
\* decision, date and reason, whatever review arrives later, over HTTP or
\* over the socket.
C19_DecidedTermIsFinal ==
  [][\A d \in newWords :
       d.status # "pending"
         => \E e \in newWords' :
              /\ e._id = d._id
              /\ e.status = d.status
              /\ e.userDecision = d.userDecision]_vars

\* C20: when the pipeline loads the owner of a text message, every tracked
\* word the owner has confirmed as hate speech before and that the text
\* contains is covered by the blocked words the message is evaluated against
\* (unless the text contains an allowed word), so that the message is blocked
\* as a custom blocked word.
C20_ConfirmedTermBlocks ==
  [][\A p \in DOMAIN pc :
       pc[p] = "find" /\ pc'[p] = "classify" /\ messageData[p].type = "text"
         => \A d \in newWords :
              /\ d.userId = user'[p]._id
              /\ d.status = "approved"
              /\ d.userDecision.markedAsHateSpeech
              /\ ContainsAny(bodyOf(p), {d.word})
              /\ ~ContainsAny(bodyOf(p), user'[p].moderationSettings.customAllowedWords)
              => ContainsAny(bodyOf(p), user'[p].moderationSettings.customBlockedWords)]_vars

\* a text message whose text matches neither a blocked nor an allowed word
NoCustomWordMatch(p) ==
  /\ JudgedText(p)
  /\ ~ContainsAny(bodyOf(p), settingsOf(p).customBlockedWords)
  /\ ~ContainsAny(bodyOf(p), settingsOf(p).customAllowedWords)

\* C23: a text message with no custom-word match is blocked with reason
\* hate_speech only if hateSpeechEnabled is on and the classifier's hate-speech
\* confidence is above 0.7; when the classification succeeds with a hate-speech
\* confidence of at most 0.7, whatever the other categories score, the
\* message is approved.
C23_BlockedOnlyAboveBlockThreshold ==
  \A p \in DOMAIN pc :
    NoCustomWordMatch(p)
      => /\ verdict(p).status = "blocked" /\ verdict(p).reason = "hate_speech"
              => /\ settingsOf(p).hateSpeechEnabled
                 /\ obs[p].resp.ok
                 /\ hateSpeechConfidence(obs[p].resp) > BlockThreshold
         /\ obs[p].resp.ok /\ hateSpeechConfidence(obs[p].resp) <= BlockThreshold
              => verdict(p).status = "approved"

\* C24: for an image or video whose classification succeeded, the verdict is
\* blocked exactly when nudity is detected and nudityEnabled is on, or violence
\* is detected and violenceEnabled is on, or explicit content is detected; in
\* every other case it is approved.
C24_TogglesGateNudityAndViolence ==
  \A p \in DOMAIN pc :
    JudgedMedia(p) /\ verdict(p).contentModeration.set
      => LET m == verdict(p).contentModeration.moderation
             blocks == \/ m.nudity.detected /\ settingsOf(p).nudityEnabled
                       \/ m.violence.detected /\ settingsOf(p).violenceEnabled
                       \/ m.explicit.detected
         IN /\ blocks => verdict(p).status = "blocked"
            /\ ~blocks => verdict(p).status = "approved"

\* nudity and violence detected with both toggles off, no explicit content
C24_Witness ==
  \E p \in DOMAIN pc :
    /\ JudgedMedia(p) /\ verdict(p).contentModeration.set
    /\ verdict(p).contentModeration.moderation.nudity.detected
    /\ verdict(p).contentModeration.moderation.violence.detected
    /\ ~verdict(p).contentModeration.moderation.explicit.detected
    /\ ~settingsOf(p).nudityEnabled /\ ~settingsOf(p).violenceEnabled
    /\ verdict(p).status = "approved"

HasOneReason(moderation) == moderation.reason \notin {Undefined, "", "null"}

\* C25: every verdict the pipeline attaches to a message, and every verdict it
\* stores, has a reason when its status is blocked or error and has none when
\* its status is approved.
C25_ReasonIffNotApproved ==
  /\ \A p \in DOMAIN pc :
       Judged(p)
         => /\ verdict(p).status \in {"approved", "blocked", "error"}
            /\ verdict(p).status \in {"blocked", "error"} => HasOneReason(verdict(p))
            /\ verdict(p).status = "approved" => verdict(p).reason = Undefined
  /\ \A m \in messages :
       /\ m.moderation.status \in {"blocked", "error"} => HasOneReason(m.moderation)
       /\ m.moderation.status = "approved" => m.moderation.reason = Undefined

\* an audio message approved although the classification of its transcript
\* failed with a reason of its own
C25_Witness ==
  \E p \in DOMAIN pc :
    /\ pc[p] = "handle" /\ messageData[p].type = "audio"
    /\ "detectHateSpeech" \in obs[p].failed
    /\ verdict(p).status = "approved"
    /\ \E m \in messages : m._id = message[p]._id /\ m.moderation = verdict(p)

\* C21: a verification request with mode 'subscribe' and the configured verify
\* token is answered 200 with the challenge as it was sent, any other mode or
\* token is answered 403; serving it changes no document of the stores, and
\* the same request served again gets the same answer.
Answered(v) == v.status # 0

SameRequest(v, w) ==
  v.mode = w.mode /\ v.token = w.token /\ v.challenge = w.challenge

C21_ChallengeEchoedOrForbidden ==
  [][verification' # verification =>
       LET v == verification' IN
       /\ IF v.mode.kind = "string" /\ v.mode.value = <<"subscribe">>
             /\ v.token.kind = "string" /\ v.token.value = <<VerifyToken>>
            THEN /\ v.status = 200
                 /\ v.challenge.kind = "string" => v.body.text = v.challenge.value
            ELSE v.status = 403 /\ v.body.text = <<"Forbidden">>
       /\ users' = users /\ messages' = messages /\ newWords' = newWords
       /\ outbox' = outbox
       /\ Answered(verification) /\ SameRequest(verification, v)
            => v.status = verification.status /\ v.body = verification.body]_vars

\* the challenge echoed to a second request, after the pipeline stored a message
C21_Witness ==
  /\ verification.status = 200
  /\ verification.body = ResponseBody("text/html", <<"c1">>)
  /\ verification.remaining = MaxChallenges - 2
  /\ messages # Stored(MinBlockedOccurrences)

\* C22: once the deletion of an owner's account has completed, the stores hold
\* no message and no candidate term of that owner, also when the handling of a
\* message addressed to the owner was in flight during the deletion.
Deleted(u) == u \notin DOMAIN users

C22_NothingRemainsAfterDeletion ==
  \A u \in UserIds :
    Deleted(u) =>
      /\ \A m \in messages : m.userId # u
      /\ \A d \in newWords : d.userId # u

\* C26: once a message is stored with a terminal verdict, no later operation
\* other than its deletion (a webhook delivery, a moderation_update socket
\* event, an API call) changes its moderation status or its reason.
Terminal(m) == m.moderation.status \in {"approved", "blocked", "error"}

C26_StoredVerdictNeverChanges ==
  [][\A m \in messages, n \in messages' :
       n._id = m._id /\ Terminal(m) =>
         /\ n.moderation.status = m.moderation.status
         /\ n.moderation.reason = m.moderation.reason]_vars

\* C27: every stored inbound message has a terminal moderation status; none
\* is ever in the store with status pending.
C27_StoredMessagesAreJudged ==
  \A m \in messages : Terminal(m)

\* a tracked word that this step creates, or whose frequency it raises
CreatedOrRaised(d) ==
  \/ \A e \in newWords : e._id # d._id
  \/ \E e \in newWords : e._id = d._id /\ d.frequency > e.frequency

\* C28: whenever a tracked word is created or its count is incremented, by the
\* pipeline or by the new_word_detected socket event, its word has more than
\* two characters, is not a stopword, and occurs in at least 3 of the owner's
\* blocked messages at that time.
C28_ObservedTokensQualify ==
  [][\A d \in newWords' :
       CreatedOrRaised(d)
         => /\ Len(d.word) > 2
            /\ d.word \notin commonWords
            /\ Cardinality(BlockedContaining(d.userId, d.word)) >= 3]_vars

\* C29: once a tracked word has a decision (its status is not pending), later
\* observations leave its frequency and its date of last detection unchanged.
C29_DecidedTermIsNotCounted ==
  [][\A d \in newWords :
       d.status # "pending"
         => \A e \in newWords' :
              e._id = d._id
                => e.frequency = d.frequency /\ e.lastDetected = d.lastDetected]_vars

\* the observations of the tracked word d that this step completes: an
\* invocation of the pipeline or a new_word_detected handler that had found d
\* and now returns from its save
Completing(d) ==
  {p \in DOMAIN pc : /\ pc[p] = "track" /\ pc'[p] # "track"
                     /\ learner[p].newWord._id = d._id}
  \cup
  {h \in DOMAIN op : /\ op[h].stage = "save" /\ op'[h].stage = "idle"
                     /\ op[h].kind = "new_word_detected"
                     /\ op[h].newWord._id = d._id}

\* C30: for a pending tracked word every observation raises the stored
\* frequency by exactly one, also when observations overlap, and no step
\* lowers it.
C30_EveryObservationCounts ==
  [][\A d \in newWords :
       d.status = "pending"
         => \E e \in newWords' :
              /\ e._id = d._id
              /\ e.frequency = d.frequency + Cardinality(Completing(d))]_vars

\* C31: under fair scheduling the processing of every inbound message comes
\* to its end, also when an external capability (media download,
\* transcription, classification, sending of the automated reply) never
\* answers, because every external call has a timeout that makes it fail.
C31_ProcessingTerminates ==
  \A p \in {1} : (pc[p] # "idle") ~> (pc[p] = "idle")

\* the calls of the invocation that answered
Answering(p) == obs[p].calls \ obs[p].failed

\* the stored document of the message the invocation has saved
Persisted(p) == {m \in messages : pc[p] = "handle" /\ m._id = message[p]._id}

\* C32: the stored verdict of a message that was classified keeps the scores
\* the classifier returned, the hate-speech confidence for text and
\* transcribed audio and the nudity, violence and explicit confidences for
\* images and videos, whether the verdict is approved or blocked.
C32_ScoresRetained ==
  \A p \in DOMAIN pc :
    \A m \in Persisted(p) :
      m.moderation.status \in {"approved", "blocked"} =>
      /\ "detectHateSpeech" \in Answering(p) => m.moderation.hateSpeech.set
      /\ "moderateMedia" \in Answering(p) => m.moderation.contentModeration.set

\* C33: the learner creates or updates a tracked word only while it handles a
\* text message whose verdict is approved; the handling of a message whose
\* verdict is blocked or error, or of a message that is not text, leaves the
\* tracked words as they are.
C33_OnlyApprovedTextTeaches ==
  [][\A p \in DOMAIN pc :
       pc'[p] # pc[p] /\ newWords' # newWords
         => /\ messageData[p].type = "text"
            /\ verdict(p).status = "approved"
            /\ message'[p].moderation.status \in {"approved", "pending"}]_vars

\* an approved text has taught a word, after a blocked or failed one and a
\* message of another kind have not
C33_Witness ==
  \E p \in DOMAIN pc :
    /\ pc[p] = "save" /\ messageData[p].type = "text"
    /\ verdict(p).status = "approved"
    /\ \E d \in newWords : ContainsAny(bodyOf(p), {d.word})
    /\ deliveries < MaxDeliveries - 1

\* the body is of the provider's object type and each of its entries can be
\* iterated
Normalizable(body) ==
  /\ body.object = "whatsapp_business_account"
  /\ \A i \in 1..Len(body.entry) : body.entry[i].wellFormed

C35_NormalizedMessageHasDestination ==
  \A p \in DOMAIN pc :
    request[p].stage = "loop" /\ pc[p] # "idle"
      => /\ messageData[p].to # Undefined
         /\ user[p] # NoUser => user[p].whatsappNumber = messageData[p].to

\* C36: a stored message is marked 'delivered' only if its verdict is approved;
\* a message whose verdict is blocked or error keeps the status 'received'.
C36_DeliveredOnlyIfApproved ==
  \A m \in messages :
    /\ m.status = "delivered" => m.moderation.status = "approved"
    /\ m.moderation.status \in {"blocked", "error"} => m.status = "received"

\* the invocation handles a delivery of a provider message id under which a
\* text message is stored already
Redelivered(p) ==
  /\ pc[p] # "idle"
  /\ \E m \in messages :
       m.whatsappMessageId = messageData[p].id /\ m.messageType = "text"

\* C37: delivering again the provider message id of a text message that is
\* stored already leaves every tracked word of the owner unchanged: no
\* frequency is incremented and no tracked word is created.
C37_RedeliveryTeachesNothing ==
  [][\A p \in DOMAIN pc :
       Redelivered(p) /\ pc'[p] # pc[p] => newWords' = newWords]_vars

\* the invocation is inside checkForNewWords
Learns(p) == pc[p] \in {"count", "lookup", "track"}

\* C38: a failure inside the learner, such as the duplicate-key failure when
\* two invocations both try to create the same tracked word, never ends the
\* handling of the text message that triggered it: the invocation goes on to
\* persist the message with its approved verdict.
C38_LearningFailureKeepsMessage ==
  [][\A p \in DOMAIN pc :
       Learns(p) /\ pc'[p] # pc[p]
         => /\ pc'[p] # "idle"
            /\ message'[p].moderation.status = "approved"]_vars

\* the provider messages of the entries, in the order of the payload
RECURSIVE InOrder(_)
InOrder(entry) ==
  IF entry = <<>> THEN <<>> ELSE Head(entry).messages \o InOrder(Tail(entry))

\* C39: within one accepted webhook payload the messages are processed one at
\* a time in the order of the payload, an exception while one message is
\* processed does not keep the later ones from being processed, and the
\* response is sent only when every message of the payload has been processed.
C39_PayloadProcessedInOrder ==
  [][\A p \in DOMAIN pc :
       LET q == request'[p]
           all == InOrder(q.body.entry)
           k == Len(all) - Len(q.queue)
       IN /\ q.stage = "loop"
               => /\ pc'[p] # "idle"
                  /\ k \in 1..Len(all)
                  /\ messageData'[p].id = all[k].id
                  /\ messageData'[p].type = all[k].type
                  /\ \A i \in 1..Len(q.queue) : q.queue[i].id = all[k + i].id
          /\ request[p].stage = "loop" /\ messageData'[p] # messageData[p]
               => IF request[p].queue # <<>>
                    THEN /\ q.stage = "loop"
                         /\ messageData'[p] = Head(request[p].queue)
                    ELSE /\ q.stage = "responded" /\ q.status = 200
                         /\ pc'[p] = "idle"
          /\ request[p].stage = "loop" /\ q.stage # "loop"
               => request[p].queue = <<>> /\ pc[p] # "idle"]_vars

\* a request of two messages or more answered 200 although a save had failed
C39_Witness ==
  \E p \in DOMAIN pc :
    /\ request[p].stage = "responded" /\ request[p].status = 200
    /\ request[p].persistFailed
    /\ Len(InOrder(request[p].body.entry)) >= 2

\* the number of the times, among those given, less than a window before t
Within(times, t) ==
  Cardinality({i \in 1..Len(times) : times[i] <= t /\ t - times[i] < WindowMs})

\* whether the Map holds the same attempts for the client in both
SameAttempts(before, after, c) ==
  /\ (c \in DOMAIN after) = (c \in DOMAIN before)
  /\ c \in DOMAIN before => after[c] = before[c]

\* C40: for every client IP authRateLimit passes on at most 5 requests with
\* timestamps inside any window of 15 minutes; a request that arrives while 5
\* admitted attempts lie within the 15 minutes before it is answered 429 and
\* is not recorded as an attempt, and the attempts of one IP never affect
\* another IP.
C40_AtMostFivePerWindow ==
  [][LET r == authRequests'.last
         before == authRequests.passed
         after == authRequests'.passed
     IN /\ \A c \in ClientIPs : \A i \in 1..Len(after[c]) :
             Within(after[c], after[c][i]) <= MaxAttempts
        /\ Within(before[r.ip], r.time) >= MaxAttempts
             => /\ r.status = 429
                /\ after[r.ip] = before[r.ip]
                /\ SameAttempts(authAttempts, authAttempts', r.ip)
        /\ Within(before[r.ip], r.time) < MaxAttempts
             => /\ r.status = 200
                /\ after[r.ip] = Append(before[r.ip], r.time)
        /\ \A c \in ClientIPs \ {r.ip} :
             /\ after[c] = before[c]
             /\ SameAttempts(authAttempts, authAttempts', c)]_vars

\* a client is refused while the other client has been passed on
C40_Witness ==
  /\ authRequests.last.status = 429
  /\ \E c \in ClientIPs \ {authRequests.last.ip} :
       Len(authRequests.passed[c]) >= 1

====
